---- MODULE Spec2Model ----
(***************************************************************************)
(* Verification model of the SciTECO execution core:                       *)
(*   - the command interpreter (src/src/parser.cpp): parser states,        *)
(*     modes, modifiers, expression stack, loop stack, macro frames and    *)
(*     the per-character undo journal;                                     *)
(*   - the document model (src/qbuffers.cpp): buffer ring, Q-Registers,    *)
(*     Q-Register stack, file system and save points.                      *)
(* Characters are one-character strings, texts are sequences of them.      *)
(***************************************************************************)
EXTENDS Integers, Sequences, FiniteSets, TLC

(* ----------------------------------------------------------------------- *)
(* Bounds of the model                                                     *)
(* ----------------------------------------------------------------------- *)
\* longest command line typed by the user
MaxCmdLen == 4
\* most undo tokens one typed character may emit before the user interrupts
MaxUndo == 14

(* ----------------------------------------------------------------------- *)
(* Interpreter state                                                       *)
(* ----------------------------------------------------------------------- *)
VARIABLES
    cmdline,        \* the command line macro typed so far
    phase,          \* "idle": waiting for a key; "run": Execute::step loop
    frames,         \* saved parent_* locals of the active Execute::macro calls
    macro_pc,       \* program counter in the executing macro
    states_current, \* States::current
    mode,           \* MODE_NORMAL, MODE_PARSE_ONLY_LOOP, MODE_PARSE_ONLY_COND
    nest_level,
    skip_else,
    mod_colon,      \* Modifiers::colon
    mod_at,         \* Modifiers::at
    expr_stack,     \* expressions: numbers and markers, top is the last entry
    num_sign,       \* expressions.num_sign
    brace_level,    \* expressions.brace_level
    loop_stack,     \* loop_stack: LoopContext frames, top is the last entry
    loop_stack_fp,  \* loop frame pointer of the executing macro
    undo_group,     \* undo tokens emitted by the character being executed
    journal,        \* undo tokens of the earlier characters, one group each
    qreg_macro,     \* strings of the global Q-Registers used as macros
    qreg_search,    \* integer of the global search register "_"
    event,          \* what the last step did (observation only)
    skip,           \* where the parse-only mode began (observation only)
    snaps,          \* the interpreter state before each typed character
    goto_table,     \* Goto::table: 0 is the command line's table, d the
                    \* macro_goto_table of the d-th active Execute::macro
    qreg_locals     \* QRegisters::locals, named in the same way

(* ----------------------------------------------------------------------- *)
(* Document model state                                                    *)
(* ----------------------------------------------------------------------- *)
VARIABLES
    files,          \* file system: canonical path -> content
    buffers,        \* Buffer objects by address; freed ones keep their bytes
    ring,           \* ring.head: addresses of the buffers in ring order
    ring_current,   \* ring.current (0 is NULL)
    documents,      \* Scintilla documents by address: text, undo history
    view,           \* document installed in the widget (SCI_SETDOCPOINTER)
    qregs,          \* QRegisters::globals
    qreg_current,   \* QRegisters::current ("" is NULL)
    qreg_stack,     \* QRegisters::stack, head first
    undo_tokens,    \* undo tokens of the executed commands, one group each
    keys,           \* commands typed and rubbed out so far
    doc_event,      \* what the last command did (observation only)
    crashed,        \* the process died of a use of freed memory
    undo_enabled    \* undo.enabled: interactive mode; FALSE in batch mode

(* ----------------------------------------------------------------------- *)
(* Signals                                                                 *)
(* ----------------------------------------------------------------------- *)
VARIABLES
    sigint_occurred \* set by the SIGINT handler, read by is_interrupted()

(* ----------------------------------------------------------------------- *)
(* Scintilla view                                                          *)
(* ----------------------------------------------------------------------- *)
VARIABLES
    dot             \* caret of the view (SCI_GETCURRENTPOS)

(* ----------------------------------------------------------------------- *)
(* String arguments                                                        *)
(* ----------------------------------------------------------------------- *)
VARIABLES
    escape_char,    \* the character that ends the string argument
    nesting,        \* StateExpectString::nesting
    strings,        \* strings[0]: the argument collected so far
    string_args,    \* arguments of the command handed to done() (observation)
    string_typed,   \* characters fed to the command's string states
                    \* (observation)
    string_cmd,     \* number of string arguments of the command and the at
                    \* flag it began with (observation)
    machine         \* StateExpectString::machine: micro state, case mode
                    \* and toctl of the StringBuildingMachine

svars == <<escape_char, nesting, strings, string_args, string_typed,
           string_cmd, machine>>

dvars == <<files, buffers, ring, ring_current, documents, view, qregs,
           qreg_current, qreg_stack, undo_tokens, keys, doc_event, crashed,
           undo_enabled>>

pvars == <<cmdline, phase, frames, macro_pc, states_current, mode, nest_level,
           skip_else, mod_colon, mod_at, expr_stack, num_sign, brace_level,
           loop_stack, loop_stack_fp, undo_group, journal, qreg_macro,
           qreg_search, event, snaps, skip, goto_table, qreg_locals>>

(* ----------------------------------------------------------------------- *)
(* Sequence helpers                                                        *)
(* ----------------------------------------------------------------------- *)
Front(s) == SubSeq(s, 1, Len(s) - 1)

Last(s) == s[Len(s)]

RemoveAt(s, i) == SubSeq(s, 1, i - 1) \o SubSeq(s, i + 1, Len(s))

(* ----------------------------------------------------------------------- *)
(* The interpreter's variables as one record, so that the sequential code  *)
(* of a handler becomes a composition of record transformers.              *)
(*   next: the State returned by the handler                               *)
(*   err:  message of the Error thrown ("" if none)                        *)
(*   ret:  argument count of the Return thrown (-1 if none)                *)
(*   call: text handed to Execute::macro (calling FALSE if none)           *)
(* ----------------------------------------------------------------------- *)
\* no parse-only mode, and one whose beginning was rolled back over
NoSkip == [kind |-> "none", at |-> 0, depth |-> 0, state |-> <<>>]

LostSkip == [kind |-> "lost", at |-> 0, depth |-> 0, state |-> <<>>]

Machine ==
    [cmdline |-> cmdline, phase |-> phase, frames |-> frames,
     macro_pc |-> macro_pc, states_current |-> states_current,
     mode |-> mode, nest_level |-> nest_level, skip_else |-> skip_else,
     mod_colon |-> mod_colon, mod_at |-> mod_at, expr_stack |-> expr_stack,
     num_sign |-> num_sign, brace_level |-> brace_level,
     loop_stack |-> loop_stack, loop_stack_fp |-> loop_stack_fp,
     undo_group |-> undo_group, journal |-> journal,
     qreg_macro |-> qreg_macro, qreg_search |-> qreg_search,
     event |-> event, snaps |-> snaps, skip |-> skip,
     sigint_occurred |-> sigint_occurred,
     dot |-> dot, buffer |-> documents[view].text,
     must_undo |-> qreg_current = "" \/ qregs[qreg_current].must_undo,
     goto_table |-> goto_table, qreg_locals |-> qreg_locals,
     next |-> states_current, err |-> "", ret |-> -1,
     calling |-> FALSE, call |-> <<>>, locals |-> TRUE]

InstallMachine(m) ==
    /\ cmdline' = m.cmdline
    /\ phase' = m.phase
    /\ frames' = m.frames
    /\ macro_pc' = m.macro_pc
    /\ states_current' = m.states_current
    /\ mode' = m.mode
    /\ nest_level' = m.nest_level
    /\ skip_else' = m.skip_else
    /\ mod_colon' = m.mod_colon
    /\ mod_at' = m.mod_at
    /\ expr_stack' = m.expr_stack
    /\ num_sign' = m.num_sign
    /\ brace_level' = m.brace_level
    /\ loop_stack' = m.loop_stack
    /\ loop_stack_fp' = m.loop_stack_fp
    /\ undo_group' = m.undo_group
    /\ journal' = m.journal
    /\ qreg_macro' = m.qreg_macro
    /\ goto_table' = m.goto_table
    /\ qreg_locals' = m.qreg_locals
    /\ qreg_search' = m.qreg_search
    /\ event' = m.event
    /\ snaps' = m.snaps
    /\ skip' = m.skip
    /\ sigint_occurred' = m.sigint_occurred
    /\ dot' = m.dot
    /\ UNCHANGED dvars

Install(m) == InstallMachine(m) /\ UNCHANGED svars

(* ----------------------------------------------------------------------- *)
(* Undo journal (tokens of the interpreter)                                *)
(* ----------------------------------------------------------------------- *)
Tok(k, f, v) == [k |-> k, f |-> f, v |-> v]

\* undo.push(token)
UndoPush(m, tok) == [m EXCEPT !.undo_group = Append(@, tok)]

\* undo.push_var(var) = value
SetVar(m, f, v) == [UndoPush(m, Tok("var", f, m[f])) EXCEPT ![f] = v]

\* UndoToken::run() of one token
RunToken(m, tok) ==
    CASE tok.k = "var" -> [m EXCEPT ![tok.f] = tok.v]
      [] tok.k = "loop_pop" ->
            [m EXCEPT !.loop_stack = IF @ = <<>> THEN @ ELSE Front(@)]
      [] tok.k = "gotopos" -> [m EXCEPT !.dot = tok.v]
      [] tok.k = "loop_push" -> [m EXCEPT !.loop_stack = Append(@, tok.v)]
      [] tok.k = "loop_counter" ->
            \* the token holds the address of the frame's counter
            IF tok.f <= Len(m.loop_stack)
            THEN [m EXCEPT !.loop_stack[tok.f].counter = tok.v]
            ELSE m
      [] OTHER -> m

\* UndoStack::pop(): the tokens of one character, last pushed first
RECURSIVE RunTokens(_, _)
RunTokens(m, toks) ==
    IF toks = <<>> THEN m
    ELSE RunTokens(RunToken(m, Last(toks)), Front(toks))

Throw(m, msg) == [m EXCEPT !.err = msg]

Returns(m, st) == [m EXCEPT !.next = st]

(* ----------------------------------------------------------------------- *)
(* Expression stack (class Expressions)                                    *)
(* Arithmetic operator commands are outside the modelled alphabet, so the  *)
(* stack holds numbers and the NEW and BRACE markers only; eval() then     *)
(* has nothing to calculate and only eval(true) changes the stack.         *)
(* ----------------------------------------------------------------------- *)
Radix == 10

Num(n) == [t |-> "NUM", v |-> n]

Marker(o) == [t |-> o, v |-> 0]

\* Expressions::args(): the numbers above the top-most marker
RECURSIVE ExprArgs(_)
ExprArgs(s) ==
    IF s = <<>> \/ Last(s).t # "NUM" THEN 0 ELSE 1 + ExprArgs(Front(s))

\* index of the top-most BRACE marker, 0 if none
RECURSIVE TopBrace(_)
TopBrace(s) ==
    IF s = <<>> THEN 0
    ELSE IF Last(s).t = "BRACE" THEN Len(s) ELSE TopBrace(Front(s))

\* Expressions::eval(true): drops the top-most BRACE, keeps what is above it
ExprEvalPopBrace(m) ==
    LET i == TopBrace(m.expr_stack)
    IN  IF i = 0 THEN m ELSE SetVar(m, "expr_stack", RemoveAt(m.expr_stack, i))

\* Expressions::set_num_sign()
ExprSetNumSign(m, sign) == SetVar(m, "num_sign", sign)

\* Expressions::push(tecoInt)
ExprPush(m, n) ==
    LET m1 == IF m.num_sign < 0 THEN ExprSetNumSign(m, 1) ELSE m
        v == IF m.num_sign < 0 THEN 0 - n ELSE n
    IN  SetVar(m1, "expr_stack", Append(m1.expr_stack, Num(v)))

\* Expressions::push(Operator) of a marker
ExprPushMarker(m, o) == SetVar(m, "expr_stack", Append(m.expr_stack, Marker(o)))

\* value returned by Expressions::pop_num_calc(0, imply)
ExprPopNumValue(m, imply) ==
    IF ExprArgs(m.expr_stack) > 0 THEN Last(m.expr_stack).v ELSE imply

\* state left by Expressions::pop_num_calc(0, imply)
ExprPopNumCalc(m) ==
    LET m1 == IF m.num_sign < 0 THEN ExprSetNumSign(m, 1) ELSE m
    IN  IF ExprArgs(m1.expr_stack) > 0
        THEN SetVar(m1, "expr_stack", Front(m1.expr_stack))
        ELSE m1

\* Expressions::add_digit()
ExprAddDigit(m, d) ==
    LET has == ExprArgs(m.expr_stack) > 0
        n == IF has THEN Last(m.expr_stack).v ELSE 0
        m1 == IF has THEN SetVar(m, "expr_stack", Front(m.expr_stack)) ELSE m
    IN  ExprPush(m1, n * Radix + (IF n < 0 THEN 0 - d ELSE d))

\* Expressions::discard_args()
ExprDiscardArgs(m) ==
    LET n == ExprArgs(m.expr_stack)
        m1 == IF m.num_sign < 0 THEN ExprSetNumSign(m, 1) ELSE m
    IN  IF n = 0 THEN m
        ELSE SetVar(m1, "expr_stack",
                    SubSeq(m1.expr_stack, 1, Len(m1.expr_stack) - n))

\* Expressions::brace_open()
ExprBraceOpen(m) ==
    LET m1 == ExprPushMarker(m, "BRACE")
    IN  SetVar(m1, "brace_level", m1.brace_level + 1)

\* Expressions::brace_close()
ExprBraceClose(m) ==
    IF m.brace_level = 0 THEN Throw(m, "Missing opening brace")
    ELSE ExprEvalPopBrace(SetVar(m, "brace_level", m.brace_level - 1))

\* the loop of Expressions::brace_return(): braces above keep are discarded
RECURSIVE ExprDropBraces(_, _)
ExprDropBraces(m, keep) ==
    IF m.brace_level <= keep THEN m
    ELSE ExprDropBraces(
            [ExprEvalPopBrace(ExprDiscardArgs(m))
                EXCEPT !.brace_level = m.brace_level - 1], keep)

\* Expressions::brace_return(keep_braces, args)
ExprBraceReturn(m, keep, args) ==
    LET s == m.expr_stack
        kept == SubSeq(s, Len(s) - args + 1, Len(s))
        m1 == SetVar(m, "expr_stack", SubSeq(s, 1, Len(s) - args))
        m2 == ExprDropBraces(UndoPush(m1, Tok("var", "brace_level", m1.brace_level)),
                             keep)
    IN  SetVar(m2, "expr_stack", m2.expr_stack \o kept)

(* ----------------------------------------------------------------------- *)
(* State base class                                                        *)
(* ----------------------------------------------------------------------- *)
\* State::eval_colon(): the state it leaves
EvalColon(m) == IF m.mod_colon THEN SetVar(m, "mod_colon", FALSE) ELSE m

Digits == {"0", "1", "2"}

DigitValue(c) == CASE c = "0" -> 0 [] c = "1" -> 1 [] c = "2" -> 2

\* IS_FAILURE()
IsFailure(b) == b >= 0
(* ----------------------------------------------------------------------- *)
(* StateStart                                                              *)
(* ----------------------------------------------------------------------- *)
\* case '<'
StartLoopStart(m) ==
    IF m.mode = "PARSE_ONLY_LOOP" THEN SetVar(m, "nest_level", m.nest_level + 1)
    ELSE IF m.mode # "NORMAL" THEN m
    ELSE LET pass == m.mod_colon
             m1 == EvalColon(m)
             counter == ExprPopNumValue(m1, -1)
             m2 == ExprPopNumCalc(m1)
         IN  IF counter # 0
             THEN LET m3 == IF pass THEN m2 ELSE ExprBraceOpen(m2)
                      ctx == [counter |-> counter, pc |-> m.macro_pc,
                              pass_through |-> pass]
                  IN  UndoPush([m3 EXCEPT !.loop_stack = Append(@, ctx)],
                               Tok("loop_pop", "", 0))
             ELSE SetVar(m2, "mode", "PARSE_ONLY_LOOP")

\* the stack handling shared by '>' and 'F>'
LoopEndArgs(m, ctx, colon_modified) ==
    IF ctx.pass_through THEN m
    ELSE IF colon_modified THEN ExprPushMarker(m, "NEW")
    ELSE ExprDiscardArgs(m)

\* the test of '>', ';' and 'F>' for a loop of the current macro level
NoLoopHere_AnyFrame(m) == Len(m.loop_stack) = 0

NoLoopHere(m) == Len(m.loop_stack) <= m.loop_stack_fp

\* case '>' ending the loop on any counter that is not above 1
StartLoopEnd_EndBelowOne(m) ==
    IF m.mode = "PARSE_ONLY_LOOP"
    THEN IF m.nest_level = 0 THEN SetVar(m, "mode", "NORMAL")
         ELSE SetVar(m, "nest_level", m.nest_level - 1)
    ELSE IF m.mode # "NORMAL" THEN m
    ELSE IF NoLoopHere(m)
    THEN Throw(m, "Loop end without corresponding loop start command")
    ELSE LET ctx == Last(m.loop_stack)
             top == Len(m.loop_stack)
             m1 == LoopEndArgs(EvalColon(m), ctx, m.mod_colon)
         IN  IF ctx.counter <= 1
             THEN LET m2 == IF ctx.pass_through THEN m1 ELSE ExprBraceClose(m1)
                  IN  IF m2.err # "" THEN m2
                      ELSE UndoPush([m2 EXCEPT !.loop_stack = Front(@)],
                                    Tok("loop_push", "", ctx))
             ELSE LET m2 == [m1 EXCEPT !.macro_pc = ctx.pc]
                  IN  UndoPush([m2 EXCEPT !.loop_stack[top].counter =
                                                ctx.counter - 1],
                               Tok("loop_counter", top, ctx.counter))

\* case '>'
StartLoopEnd(m) ==
    IF m.mode = "PARSE_ONLY_LOOP"
    THEN IF m.nest_level = 0 THEN SetVar(m, "mode", "NORMAL")
         ELSE SetVar(m, "nest_level", m.nest_level - 1)
    ELSE IF m.mode # "NORMAL" THEN m
    ELSE IF NoLoopHere(m)
    THEN Throw(m, "Loop end without corresponding loop start command")
    ELSE LET ctx == Last(m.loop_stack)
             top == Len(m.loop_stack)
             m1 == LoopEndArgs(EvalColon(m), ctx, m.mod_colon)
         IN  IF ctx.counter = 1
             THEN LET m2 == IF ctx.pass_through THEN m1 ELSE ExprBraceClose(m1)
                  IN  IF m2.err # "" THEN m2
                      ELSE UndoPush([m2 EXCEPT !.loop_stack = Front(@)],
                                    Tok("loop_push", "", ctx))
             ELSE LET m2 == [m1 EXCEPT !.macro_pc = ctx.pc]
                  IN  IF ctx.counter >= 0
                      THEN UndoPush([m2 EXCEPT !.loop_stack[top].counter =
                                                    ctx.counter - 1],
                                    Tok("loop_counter", top, ctx.counter))
                      ELSE m2

\* case ';' with the test for an open loop made after the arguments are popped
StartBreak_LateCheck(m) ==
    IF m.mode # "NORMAL" THEN m
    ELSE IF NoLoopHere(m)
    THEN Throw(EvalColon(ExprPopNumCalc(m)), "<;> only allowed in iterations")
    ELSE EvalColon(ExprPopNumCalc(m))

\* case ';' implying 0 where the stack has no argument
StartBreak_NoSearch(m) ==
    IF m.mode # "NORMAL" THEN m
    ELSE IF NoLoopHere(m) THEN Throw(m, "<;> only allowed in iterations")
    ELSE LET rc0 == ExprPopNumValue(m, 0)
             m1 == ExprPopNumCalc(m)
             rc == IF m1.mod_colon THEN (0 - rc0) - 1 ELSE rc0
             m2 == EvalColon(m1)
         IN  IF IsFailure(rc)
             THEN LET ctx == Last(m2.loop_stack)
                      m3 == ExprDiscardArgs([m2 EXCEPT !.loop_stack = Front(@)])
                      m4 == IF ctx.pass_through THEN m3 ELSE ExprBraceClose(m3)
                  IN  IF m4.err # "" THEN m4
                      ELSE SetVar(UndoPush(m4, Tok("loop_push", "", ctx)),
                                  "mode", "PARSE_ONLY_LOOP")
             ELSE m2

\* case ';'
StartBreak(m) ==
    IF m.mode # "NORMAL" THEN m
    ELSE IF NoLoopHere(m) THEN Throw(m, "<;> only allowed in iterations")
    ELSE LET rc0 == ExprPopNumValue(m, m.qreg_search)
             m1 == ExprPopNumCalc(m)
             rc == IF m1.mod_colon THEN (0 - rc0) - 1 ELSE rc0
             m2 == EvalColon(m1)
         IN  IF IsFailure(rc)
             THEN LET ctx == Last(m2.loop_stack)
                      m3 == ExprDiscardArgs([m2 EXCEPT !.loop_stack = Front(@)])
                      m4 == IF ctx.pass_through THEN m3 ELSE ExprBraceClose(m3)
                  IN  IF m4.err # "" THEN m4
                      ELSE SetVar(UndoPush(m4, Tok("loop_push", "", ctx)),
                                  "mode", "PARSE_ONLY_LOOP")
             ELSE m2

\* case '|'
StartElse(m) ==
    IF m.mode = "PARSE_ONLY_COND"
    THEN IF ~m.skip_else /\ m.nest_level = 0 THEN SetVar(m, "mode", "NORMAL")
         ELSE m
    ELSE IF m.mode # "NORMAL" THEN m
    ELSE SetVar(m, "mode", "PARSE_ONLY_COND")

\* case '\'' that counts down below the skipped conditional's own level
StartEndIf_CountBelow(m) ==
    IF m.mode # "PARSE_ONLY_COND" THEN m
    ELSE IF m.nest_level = 0 /\ m.skip_else
    THEN SetVar(SetVar(m, "mode", "NORMAL"), "skip_else", FALSE)
    ELSE SetVar(m, "nest_level", m.nest_level - 1)

\* case '\''
StartEndIf(m) ==
    IF m.mode # "PARSE_ONLY_COND" THEN m
    ELSE IF m.nest_level = 0
    THEN SetVar(SetVar(m, "mode", "NORMAL"), "skip_else", FALSE)
    ELSE SetVar(m, "nest_level", m.nest_level - 1)

\* SUCCESS and FAILURE
Success == 0 - 1

Failure == 0

\* Validate::pos() that takes the end of the buffer for off-page
ValidatePos_BeforeEnd(text, n) == n >= 0 /\ n < Len(text)

\* Validate::pos()
ValidatePos(text, n) == n >= 0 /\ n <= Len(text)

\* SCI_LINEFROMPOSITION: the line feeds before the position
RECURSIVE LineFromPosition(_, _)
LineFromPosition(text, pos) ==
    IF pos <= 0 THEN 0
    ELSE LineFromPosition(text, pos - 1)
            + (IF SubSeq(text, pos, pos) = "\n" THEN 1 ELSE 0)

\* Validate::line(): SCI_GETLINECOUNT is one more than the line feeds
ValidateLine(text, n) ==
    n >= 0 /\ n < LineFromPosition(text, Len(text)) + 1

\* SCI_GOTOLINE: the position where the line starts
PositionFromLine(text, line) ==
    IF line = 0 THEN 0
    ELSE CHOOSE pos \in 1..Len(text) :
            /\ SubSeq(text, pos, pos) = "\n"
            /\ LineFromPosition(text, pos) = line

\* Scintilla's character classes of the character after a position
ClassAfter(text, pos) ==
    CASE SubSeq(text, pos + 1, pos + 1) = " " -> "space"
      [] SubSeq(text, pos + 1, pos + 1) = "\n" -> "newline"
      [] OTHER -> "word"

RECURSIVE SkipRight(_, _, _)
SkipRight(text, pos, class) ==
    IF pos < Len(text) /\ ClassAfter(text, pos) = class
    THEN SkipRight(text, pos + 1, class)
    ELSE pos

RECURSIVE SkipLeft(_, _, _)
SkipLeft(text, pos, class) ==
    IF pos > 0 /\ ClassAfter(text, pos - 1) = class
    THEN SkipLeft(text, pos - 1, class)
    ELSE pos

\* SCI_WORDRIGHTEND
WordRightEnd(text, pos) ==
    IF SkipRight(text, pos, "space") < Len(text)
    THEN SkipRight(text, SkipRight(text, pos, "space"),
                   ClassAfter(text, SkipRight(text, pos, "space")))
    ELSE SkipRight(text, pos, "space")

\* SCI_WORDLEFTEND
WordLeftEnd(text, pos) ==
    IF pos = 0 THEN 0
    ELSE IF ClassAfter(text, pos - 1) = "space"
    THEN SkipLeft(text, pos, "space")
    ELSE SkipLeft(text, SkipLeft(text, pos, ClassAfter(text, pos - 1)),
                  "space")

\* the loop of case 'W': the caret it reaches, -1 if a message did not
\* move the caret
RECURSIVE MoveWords(_, _, _)
MoveWords(text, pos, v) ==
    IF v = 0 THEN pos
    ELSE IF v > 0
    THEN IF WordRightEnd(text, pos) = pos THEN 0 - 1
         ELSE MoveWords(text, WordRightEnd(text, pos), v - 1)
    ELSE IF WordLeftEnd(text, pos) = pos THEN 0 - 1
         ELSE MoveWords(text, WordLeftEnd(text, pos), v + 1)

\* the caret a movement command goes to, -1 if it fails
MoveTarget(text, pos, chr, n) ==
    CASE chr = "J" -> IF ValidatePos(text, n) THEN n ELSE 0 - 1
      [] chr = "C" -> IF ValidatePos(text, pos + n) THEN pos + n ELSE 0 - 1
      [] chr = "R" -> IF ValidatePos(text, pos - n) THEN pos - n ELSE 0 - 1
      [] chr = "L" ->
            IF ValidateLine(text, LineFromPosition(text, pos) + n)
            THEN PositionFromLine(text, LineFromPosition(text, pos) + n)
            ELSE 0 - 1
      [] chr = "B" ->
            IF ValidateLine(text, LineFromPosition(text, pos) - n)
            THEN PositionFromLine(text, LineFromPosition(text, pos) - n)
            ELSE 0 - 1
      [] chr = "W" -> MoveWords(text, pos, n)

\* SCI_GOTOPOS with its undo token
GotoPos(m, pos) ==
    IF m.must_undo
    THEN UndoPush([m EXCEPT !.dot = pos], Tok("gotopos", "", m.dot))
    ELSE [m EXCEPT !.dot = pos]

\* if (eval_colon()) expressions.push(rc)
PushIfColon(m, rc) == IF m.mod_colon THEN ExprPush(EvalColon(m), rc) ELSE m

\* the end of the movement commands with the colon flag ignored
MoveDone_NoColon(m, target, chr) ==
    IF target >= 0 THEN GotoPos(m, target)
    ELSE Throw(m, "Attempt to move pointer off page with <" \o chr \o ">")

\* the end of the movement commands: success, failure or MoveError
MoveDone(m, target, chr) ==
    IF target >= 0 THEN PushIfColon(GotoPos(m, target), Success)
    ELSE IF m.mod_colon THEN PushIfColon(m, Failure)
    ELSE Throw(m, "Attempt to move pointer off page with <" \o chr \o ">")

MoveCommands == {"J", "C", "R", "L", "B", "W"}

\* cases 'J', 'C', 'R', 'L', 'B' and 'W'
StartMove(m, chr) ==
    MoveDone(ExprPopNumCalc(m),
             MoveTarget(m.buffer, m.dot, chr,
                        ExprPopNumValue(m, IF chr = "J" THEN 0
                                           ELSE m.num_sign)),
             chr)

\* BEGIN_EXEC(this) that does not look at the mode
Exec_AnyMode(m, done) == done

\* BEGIN_EXEC(this) followed by the command
Exec(m, done) == IF m.mode # "NORMAL" THEN m ELSE done

\* StateStart::custom()
StartCustom(m, chr) ==
    Returns(
        CASE chr \in Digits -> Exec(m, ExprAddDigit(m, DigitValue(chr)))
          [] chr = "(" -> Exec(m, ExprBraceOpen(m))
          [] chr = ")" -> Exec(m, ExprBraceClose(m))
          [] chr = "," -> Exec(m, ExprPushMarker(m, "NEW"))
          [] chr = "<" -> StartLoopStart(m)
          [] chr = ">" -> StartLoopEnd(m)
          [] chr = ";" -> StartBreak(m)
          [] chr = "|" -> StartElse(m)
          [] chr = "'" -> StartEndIf(m)
          [] chr = "@" -> SetVar(m, "mod_at", TRUE)
          [] chr = ":" -> Exec(m, SetVar(m, "mod_colon", TRUE))
          [] chr \in MoveCommands -> Exec(m, StartMove(m, chr))
          [] OTHER -> Throw(m, "Syntax error"),
        "start")

\* State::get_next_state() of StateStart: the transitions table, then custom()
StartGetNextState(m, chr) ==
    CASE chr = "$" -> Returns(m, "escape")
      [] chr = "F" -> Returns(m, "fcommand")
      [] chr = "M" -> Returns(m, "macro")
      [] chr = "\"" -> Returns(m, "condcommand")
      [] OTHER -> StartCustom(m, chr)

(* ----------------------------------------------------------------------- *)
(* StateFCommand                                                           *)
(* ----------------------------------------------------------------------- *)
\* case '<'
FLoopStart(m) ==
    LET m1 == ExprDiscardArgs(m)
    IN  [m1 EXCEPT !.macro_pc = IF NoLoopHere(m1) THEN -1
                                ELSE Last(m1.loop_stack).pc]

\* case '>' that leaves the frame of the last iteration on the stack
FLoopEnd_KeepFrame(m) ==
    IF NoLoopHere(m)
    THEN Throw(m, "Jump to loop end without corresponding loop start command")
    ELSE IF Last(m.loop_stack).counter = 1
    THEN SetVar(m, "mode", "PARSE_ONLY_LOOP")
    ELSE [m EXCEPT !.macro_pc = Last(m.loop_stack).pc]

\* case '>'
FLoopEnd(m) ==
    IF NoLoopHere(m)
    THEN Throw(m, "Jump to loop end without corresponding loop start command")
    ELSE LET ctx == Last(m.loop_stack)
             top == Len(m.loop_stack)
             m1 == LoopEndArgs(EvalColon(m), ctx, m.mod_colon)
         IN  IF ctx.counter = 1
             THEN LET m2 == IF ctx.pass_through THEN m1 ELSE ExprBraceClose(m1)
                  IN  IF m2.err # "" THEN m2
                      ELSE SetVar(UndoPush([m2 EXCEPT !.loop_stack = Front(@)],
                                           Tok("loop_push", "", ctx)),
                                  "mode", "PARSE_ONLY_LOOP")
             ELSE [m1 EXCEPT !.macro_pc = ctx.pc,
                             !.loop_stack[top].counter =
                                 IF ctx.counter - 1 > -1 THEN ctx.counter - 1
                                 ELSE -1]

\* StateFCommand::custom() with F' leaving skip_else alone
FCustom_NoSkipElse(m, chr) ==
    Returns(
        CASE chr = "<" -> Exec(m, FLoopStart(m))
          [] chr = ">" -> Exec(m, FLoopEnd(m))
          [] chr \in {"'", "|"} -> Exec(m, SetVar(m, "mode", "PARSE_ONLY_COND"))
          [] OTHER -> Throw(m, "Syntax error"),
        "start")

\* StateFCommand::custom()
FCustom(m, chr) ==
    Returns(
        CASE chr = "<" -> Exec(m, FLoopStart(m))
          [] chr = ">" -> Exec(m, FLoopEnd(m))
          [] chr = "'" -> Exec(m, SetVar(SetVar(m, "mode", "PARSE_ONLY_COND"),
                                         "skip_else", TRUE))
          [] chr = "|" -> Exec(m, SetVar(m, "mode", "PARSE_ONLY_COND"))
          [] OTHER -> Throw(m, "Syntax error"),
        "start")

(* ----------------------------------------------------------------------- *)
(* StateCondCommand                                                        *)
(* ----------------------------------------------------------------------- *)
\* g_ascii_isupper((gchar)v) and the like: false outside ASCII
AsciiUpper(v) == v % 256 \in 65..90

AsciiLower(v) == v % 256 \in 97..122

AsciiAlnum(v) == AsciiUpper(v) \/ AsciiLower(v) \/ v % 256 \in 48..57

\* the second switch of StateCondCommand::custom(): the result of the test
CondResult(m, chr, value) ==
    CASE chr = "~" -> ExprArgs(m.expr_stack) = 0
      [] chr = "A" -> AsciiUpper(value) \/ AsciiLower(value)
      [] chr = "C" -> AsciiAlnum(value) \/ value \in {46, 36, 95}
      [] chr = "D" -> value % 256 \in 48..57
      [] chr = "I" -> value % 256 = 47
      [] chr \in {"S", "T"} -> ~IsFailure(value)
      [] chr \in {"F", "U"} -> IsFailure(value)
      [] chr \in {"E", "="} -> value = 0
      [] chr \in {"G", ">"} -> value > 0
      [] chr \in {"L", "<"} -> value < 0
      [] chr = "N" -> value # 0
      [] chr = "R" -> AsciiAlnum(value)
      [] chr = "V" -> AsciiLower(value)
      [] chr = "W" -> AsciiUpper(value)

CondTypes ==
    {"~", "A", "C", "D", "I", "S", "T", "F", "U", "E", "=", "G", ">", "L",
     "<", "N", "R", "V", "W"}

\* StateCondCommand::custom()
CondCustom(m, chr) ==
    IF m.mode = "PARSE_ONLY_COND"
    THEN IF chr \notin CondTypes
         THEN Throw(SetVar(m, "nest_level", m.nest_level + 1),
                    "Invalid conditional type")
         ELSE Returns(SetVar(m, "nest_level", m.nest_level + 1), "start")
    ELSE IF m.mode # "NORMAL"
    THEN IF chr \notin CondTypes THEN Throw(m, "Invalid conditional type")
         ELSE Returns(m, "start")
    ELSE IF chr # "~" /\ ExprArgs(m.expr_stack) = 0
    THEN Throw(m, "Argument expected")
    ELSE IF chr \notin CondTypes
    THEN Throw(IF chr = "~" THEN m ELSE ExprPopNumCalc(m),
               "Invalid conditional type")
    ELSE IF CondResult(m, chr,
                       IF chr = "~" THEN 0
                       ELSE ExprPopNumValue(m, 0))
    THEN Returns(IF chr = "~" THEN m ELSE ExprPopNumCalc(m), "start")
    ELSE Returns(SetVar(IF chr = "~" THEN m ELSE ExprPopNumCalc(m),
                        "mode", "PARSE_ONLY_COND"), "start")

(* ----------------------------------------------------------------------- *)
(* StateEscape                                                             *)
(* ----------------------------------------------------------------------- *)
\* StateEscape::custom() discarding at once, `$$` included
EscapeCustom_Eager(m, chr) ==
    IF chr = "$"
    THEN IF m.mode # "NORMAL" THEN Returns(m, "start")
         ELSE [ExprDiscardArgs(m) EXCEPT
                  !.states_current = "start",
                  !.ret = ExprArgs(ExprDiscardArgs(m).expr_stack)]
    ELSE StartGetNextState(m, chr)

\* StateEscape::custom()
EscapeCustom(m, chr) ==
    IF chr = "$"
    THEN IF m.mode # "NORMAL" THEN Returns(m, "start")
         ELSE [m EXCEPT !.states_current = "start",
                        !.ret = ExprArgs(m.expr_stack)]
    ELSE StartGetNextState(IF m.mode = "NORMAL" THEN ExprDiscardArgs(m) ELSE m,
                           chr)

(* ----------------------------------------------------------------------- *)
(* StateMacro                                                              *)
(* ----------------------------------------------------------------------- *)
\* StateMacro::got_register() up to the call of Execute::macro()
MacroGotRegister(m, chr) ==
    IF m.mode # "NORMAL" THEN Returns(m, "start")
    ELSE IF chr \notin DOMAIN m.qreg_macro THEN Throw(m, "Invalid Q-Register")
    ELSE [EvalColon(m) EXCEPT !.calling = TRUE, !.call = m.qreg_macro[chr],
                              !.locals = ~m.mod_colon]

(* ----------------------------------------------------------------------- *)
(* State::input()                                                          *)
(* ----------------------------------------------------------------------- *)
GetNextState(m, chr) ==
    CASE m.states_current = "start" -> StartGetNextState(m, chr)
      [] m.states_current = "fcommand" -> FCustom(m, chr)
      [] m.states_current = "escape" -> EscapeCustom(m, chr)
      [] m.states_current = "macro" -> MacroGotRegister(m, chr)
      [] m.states_current = "condcommand" -> CondCustom(m, chr)

\* what a rubout has to restore of the interpreter
Observable(m) ==
    [states_current |-> m.states_current, mode |-> m.mode,
     nest_level |-> m.nest_level, skip_else |-> m.skip_else,
     mod_colon |-> m.mod_colon, mod_at |-> m.mod_at,
     expr_stack |-> m.expr_stack, num_sign |-> m.num_sign,
     brace_level |-> m.brace_level, loop_stack |-> m.loop_stack]

\* the end of State::input(): the new state is journaled and set
EnterState(m, st) ==
    IF st # m.states_current THEN SetVar(m, "states_current", st) ELSE m

\* the command that leaves MODE_NORMAL
SkipKind(m, chr) ==
    CASE m.states_current = "condcommand" -> "cond"
      [] m.states_current = "fcommand" ->
            IF chr = ">" THEN "continue" ELSE "jump"
      [] chr = "<" -> "loop"
      [] chr = "|" -> "else"
      [] OTHER -> "break"

\* observation: the place where the parse-only mode began and the state
\* it began with
Watch(m, r, chr) ==
    IF r.err # "" THEN r
    ELSE IF r.mode = "NORMAL" THEN [r EXCEPT !.skip = NoSkip]
    ELSE IF m.mode = "NORMAL"
    THEN [r EXCEPT !.skip = [kind |-> SkipKind(m, chr),
                             at |-> m.macro_pc + 1,
                             depth |-> Len(m.frames),
                             state |-> Observable(r)]]
    ELSE r

Input(m, chr) ==
    LET Enter(r) == IF r.err # "" \/ r.ret >= 0 \/ r.calling THEN r
                    ELSE EnterState(r, r.next)
    IN  Watch(m, Enter(GetNextState(m, chr)), chr)
(* ----------------------------------------------------------------------- *)
(* Execute::step(), Execute::macro() and the command line                  *)
(* ----------------------------------------------------------------------- *)
\* the macro being executed: the command line or the text of a Q-Register
Text(m) == IF m.frames = <<>> THEN m.cmdline ELSE Last(m.frames).text

Event(kind, msg, fp, brace, loops, expect) ==
    [kind |-> kind, msg |-> msg, fp |-> fp, brace |-> brace, loops |-> loops,
     expect |-> expect]

\* Execute::step(): macro_pc++ after State::input(); at the end of the
\* command line the tokens of the typed character are complete
AfterChar(m) ==
    LET m1 == [m EXCEPT !.macro_pc = @ + 1]
    IN  IF m1.frames = <<>> /\ m1.macro_pc >= Len(m1.cmdline)
        THEN [m1 EXCEPT !.journal = Append(@, m1.undo_group),
                        !.undo_group = <<>>, !.phase = "idle"]
        ELSE m1

\* an Error leaves every Execute::macro() through catch (...) and reaches
\* the command line, which rolls the typed character back and rejects it
ErrorOutcome(m, msg) ==
    LET base == IF m.frames = <<>> THEN m
                ELSE [m EXCEPT !.loop_stack_fp = m.frames[1].fp,
                               !.states_current = m.frames[1].state,
                               !.goto_table = m.frames[1].goto_table,
                               !.qreg_locals = m.frames[1].locals,
                               !.frames = <<>>]
        m1 == RunTokens(base, base.undo_group)
    IN  [m1 EXCEPT !.undo_group = <<>>, !.cmdline = Front(@),
                   !.macro_pc = Len(m.cmdline) - 1, !.phase = "idle",
                   !.snaps = Front(@),
                   !.skip = IF m1.mode = "NORMAL" THEN NoSkip ELSE LostSkip,
                   !.event = Event("error", msg, m.loop_stack_fp, 0,
                                   Len(m.loop_stack) - m.loop_stack_fp,
                                   Last(m.snaps))]

\* LoopStack::clear(keep_items)
LoopStackClear(ls, keep) == IF Len(ls) > keep THEN SubSeq(ls, 1, keep) ELSE ls

\* the check of Execute::macro() for loops left open by the macro
UnterminatedLoop_Unchecked(m) == FALSE

UnterminatedLoop(m) == Len(m.loop_stack) > m.loop_stack_fp

\* State::end_of_macro() of the current state
EndOfMacroHook(m) ==
    CASE m.states_current = "start" -> m
      [] m.states_current = "escape" -> ExprDiscardArgs(m)
      [] OTHER -> Throw(m, "Unterminated command")

\* Execute::macro() after step() or after catch (Return): the checks, the
\* restore of the parent's variables, and the rest of the parent's
\* State::input() for the register character that called the macro
MacroExit(m, kind, loops) ==
    LET top == Last(m.frames)
        m1 == IF UnterminatedLoop(m) THEN Throw(m, "Unterminated loop")
              ELSE EndOfMacroHook(m)
    IN  IF m1.err # "" THEN ErrorOutcome(m1, m1.err)
        ELSE AfterChar(EnterState(
                [m1 EXCEPT !.frames = Front(@),
                           !.qreg_locals = top.locals,
                           !.goto_table = top.goto_table,
                           !.loop_stack_fp = top.fp,
                           !.macro_pc = top.pc,
                           !.states_current = top.state,
                           !.event = Event(kind, "", m.loop_stack_fp,
                                           top.brace, loops, <<>>)],
                "start"))

\* Execute::macro() taking the parent_* values after it has set its own
MacroEnter_SavedLate(m) ==
    LET frame == [text |-> m.call, pc |-> 0, fp |-> Len(m.loop_stack),
                  state |-> "start", brace |-> m.brace_level,
                  goto_table |-> Len(m.frames) + 1,
                  locals |-> IF m.locals THEN Len(m.frames) + 1
                             ELSE m.qreg_locals]
        m1 == SetVar(m, "states_current", "start")
    IN  [m1 EXCEPT !.frames = Append(@, frame), !.macro_pc = 0,
                   !.loop_stack_fp = Len(m.loop_stack),
                   !.goto_table = Len(m.frames) + 1,
                   !.qreg_locals = frame.locals,
                   !.event = Event("call", "", Len(m.loop_stack),
                                   m.brace_level, 0, <<>>)]

\* Execute::macro() up to step()
MacroEnter(m) ==
    LET frame == [text |-> m.call, pc |-> m.macro_pc, fp |-> m.loop_stack_fp,
                  state |-> m.states_current, brace |-> m.brace_level,
                  goto_table |-> m.goto_table, locals |-> m.qreg_locals]
        m1 == SetVar(m, "states_current", "start")
    IN  [m1 EXCEPT !.frames = Append(@, frame), !.macro_pc = 0,
                   !.loop_stack_fp = Len(m.loop_stack),
                   !.goto_table = Len(m.frames) + 1,
                   !.qreg_locals = IF m.locals THEN Len(m.frames) + 1 ELSE @,
                   !.event = Event("call", "", Len(m.loop_stack),
                                   m.brace_level, 0, <<>>)]

\* catch (Return) in Execute::macro()
MacroReturn(m) ==
    MacroExit([ExprBraceReturn(m, Last(m.frames).brace, m.ret) EXCEPT
                  !.loop_stack = LoopStackClear(@, m.loop_stack_fp)],
              "macro_return", Len(m.loop_stack) - m.loop_stack_fp)

\* Return reaching the command line: the command line is terminated
CmdlineTerminate(m) ==
    [m EXCEPT !.journal = <<>>, !.undo_group = <<>>, !.cmdline = <<>>,
              !.macro_pc = 0, !.expr_stack = <<>>, !.num_sign = 1,
              !.brace_level = 0, !.loop_stack = <<>>, !.phase = "idle",
              !.snaps = <<>>, !.skip = NoSkip,
              !.event = Event("terminate", "", 0, 0, 0, <<>>)]

\* one iteration of the loop of Execute::step()
StepResult(m) ==
    LET After(r) ==
            IF r.err # "" THEN ErrorOutcome(r, r.err)
            ELSE IF r.ret >= 0
            THEN IF r.frames = <<>> THEN CmdlineTerminate(r)
                 ELSE MacroReturn(r)
            ELSE IF r.calling THEN MacroEnter(r)
            ELSE AfterChar([r EXCEPT
                               !.event = Event("char", "", 0, 0, 0, <<>>)])
    IN  After(Input(m, Text(m)[m.macro_pc + 1]))

(* ----------------------------------------------------------------------- *)
(* Actions of the interpreter                                              *)
(* ----------------------------------------------------------------------- *)
KeyChars == {"1", "2", "<", ">", "(", ")", "F", "M", "$", ";"}

MacroTexts ==
    { <<"<">>, <<"2", "<", ">">>, <<"<", "$", "$">>, <<">">>, <<";">>,
      <<"F", ">">>, <<"(">>, <<")">>, <<"(", "1", "$", "$">>,
      <<"1", "<", ";">>, <<"1", "<", "(", ">">>, <<"0", "<">>,
      <<")", "$", "$">>, <<"1", "$">>, <<":", "M", "2">>,
      <<"1", "<", "M", "2", ">">> }

\* Execute::step() polling after the character was fed to the parser
ExecuteStep_PollLate(m) ==
    IF m.sigint_occurred
    THEN ErrorOutcome(Input(m, Text(m)[m.macro_pc + 1]), "Interrupted")
    ELSE StepResult(m)

\* Execute::step(): is_interrupted() is polled, then the character is fed
ExecuteStep(m) ==
    IF m.sigint_occurred THEN ErrorOutcome(m, "Interrupted")
    ELSE StepResult(m)

\* the user types a character: the event loop clears the interrupt flag,
\* then Cmdline::insert() and the first step
KeyPress(c) ==
    /\ phase = "idle"
    /\ Len(cmdline) < MaxCmdLen
    /\ Install(ExecuteStep([Machine EXCEPT
            !.cmdline = Append(@, c), !.phase = "run",
            !.snaps = Append(@, Observable(Machine)),
            !.sigint_occurred = FALSE]))

\* the next character of the executing macro
Step ==
    /\ phase = "run"
    /\ macro_pc < Len(Text(Machine))
    /\ Len(undo_group) < MaxUndo \/ sigint_occurred
    /\ Install(ExecuteStep(Machine))

\* step() has reached the end of a Q-Register macro
EndOfMacro ==
    /\ phase = "run"
    /\ frames # <<>>
    /\ macro_pc >= Len(Text(Machine))
    /\ Install(MacroExit(Machine, "macro_end", 0))

\* SIGINT arrives while the interpreter runs: the handler sets the flag
Interrupt ==
    /\ phase = "run"
    /\ ~sigint_occurred
    /\ sigint_occurred' = TRUE
    /\ UNCHANGED <<pvars, dvars, dot, svars>>

\* the user rubs out the last character: its tokens are run, last first
Rubout ==
    /\ phase = "idle"
    /\ cmdline # <<>>
    /\ LET m1 == RunTokens(Machine, Last(journal))
       IN  Install([m1 EXCEPT !.cmdline = Front(@), !.journal = Front(@),
                              !.macro_pc = Len(cmdline) - 1,
                              !.snaps = Front(@),
                              !.skip = IF m1.mode = "NORMAL" THEN NoSkip
                                       ELSE LostSkip,
                              !.sigint_occurred = FALSE,
                              !.event = Event("rubout", "", 0, 0, 0,
                                              Last(snaps))])

(* ----------------------------------------------------------------------- *)
(* StateExpectString: the end of a string argument.  A string is the       *)
(* sequence of its characters; the empty sequence is also the NULL string. *)
(* The undo tokens of the string states are left out: the specification    *)
(* of the string arguments has no rubout.                                  *)
(* ----------------------------------------------------------------------- *)
\* most characters fed to the string states of one command
MaxStringKeys == 6

\* the escape character, ASCII 27
CTL_KEY_ESC == "^["

\* String::toupper() on the characters fed to the string states
ToUpper(chr) ==
    CASE chr = "a" -> "A"
      [] chr = "v" -> "V"
      [] OTHER -> chr

\* the states that expect a string: of a non-last and of the last argument
StringStates == {"string_first", "string_last"}

\* g_ascii_tolower() on the characters fed to the string states
AsciiToLower(chr) == IF chr = "V" THEN "v" ELSE chr

\* g_ascii_toupper() on the characters fed to the string states
AsciiToUpper(chr) == IF chr = "v" THEN "V" ELSE chr

\* CTL_KEY(), `(C) & ~0x40`, of an upper-case character: a control
\* character is written as the caret and its letter
CTL_KEY(chr) == IF chr = "V" THEN "^V" ELSE chr

\* the StringBuildingMachine after its construction and after reset()
MachineReset == [state |-> "StateStart", mode |-> "MODE_NORMAL",
                 toctl |-> FALSE]

\* MicroStateMachine::set()
MachineSet(b, state) == [b EXCEPT !.state = state]

\* the machine has consumed the character without a result
NoResult(b) == [machine |-> b, emit |-> FALSE, result |-> <<>>]

\* the machine gives the result
Result(b, result) == [machine |-> b, emit |-> TRUE, result |-> result]

\* label StateEscaped: with a character for a Q-Register specification
\* after ^E the machine would go on in states that are left out
MachineStateCtlE(b, chr) ==
    Result(MachineSet(b, "StateStart"), <<"^E", chr>>)

\* StringBuildingMachine::input() from MICROSTATE_START on
MachineMicroState(b, chr) ==
    CASE b.state = "StateStart" ->
            CASE chr \in {"^Q", "^R"} -> NoResult(MachineSet(b, "StateEscaped"))
              [] chr = "^V" -> NoResult(MachineSet(b, "StateLower"))
              [] chr = "^W" -> NoResult(MachineSet(b, "StateUpper"))
              [] chr = "^E" -> NoResult(MachineSet(b, "StateCtlE"))
              [] OTHER -> Result(MachineSet(b, "StateStart"), <<chr>>)
      [] b.state = "StateLower" ->
            IF chr # "^V"
            THEN Result(MachineSet(b, "StateStart"), <<AsciiToLower(chr)>>)
            ELSE NoResult([MachineSet(b, "StateStart") EXCEPT
                              !.mode = "MODE_LOWER"])
      [] b.state = "StateUpper" ->
            IF chr # "^W"
            THEN Result(MachineSet(b, "StateStart"), <<AsciiToUpper(chr)>>)
            ELSE NoResult([MachineSet(b, "StateStart") EXCEPT
                              !.mode = "MODE_UPPER"])
      [] b.state = "StateCtlE" -> MachineStateCtlE(b, chr)
      [] OTHER -> Result(MachineSet(b, "StateStart"), <<chr>>)

\* the character with the case mode left out of account
MachineCase_Ignored(b, chr) == chr

\* the character after the switch on the case mode
MachineCase(b, chr) ==
    CASE b.mode = "MODE_UPPER" -> AsciiToUpper(chr)
      [] b.mode = "MODE_LOWER" -> AsciiToLower(chr)
      [] OTHER -> chr

\* StringBuildingMachine::input()
MachineInput(b, chr) ==
    IF b.toctl
    THEN MachineMicroState([b EXCEPT !.toctl = FALSE],
                           IF MachineCase(b, chr) # "^"
                           THEN CTL_KEY(ToUpper(MachineCase(b, chr)))
                           ELSE "^")
    ELSE IF MachineCase(b, chr) = "^"
    THEN NoResult([b EXCEPT !.toctl = TRUE])
    ELSE MachineMicroState(b, MachineCase(b, chr))

\* what StateExpectString::custom() reads and writes; last is the flag of
\* the current state, and the state builds its string (string_building)
StringMachine ==
    [at |-> mod_at, escape_char |-> escape_char, nesting |-> nesting,
     strings |-> strings, last |-> states_current = "string_last",
     mode |-> mode, done |-> FALSE, string |-> <<>>, machine |-> machine]

\* StateExpectString::custom() from the test of `!nesting` on
ExpectStringEnd(s, chr) ==
    IF s.nesting = 0
    THEN [s EXCEPT !.string = s.strings,
                   !.strings = <<>>,
                   !.escape_char = IF s.last THEN CTL_KEY_ESC ELSE @,
                   !.nesting = 1,
                   !.machine = MachineReset,
                   !.done = TRUE]
    ELSE IF s.mode # "NORMAL" THEN s
    ELSE [s EXCEPT !.strings = @ \o MachineInput(s.machine, chr).result,
                   !.machine = MachineInput(s.machine, chr).machine]

\* StateExpectString::custom() with BEGIN_EXEC before the test for the end
ExpectStringCustom_ExecFirst(s, chr) ==
    IF s.mode # "NORMAL" THEN s
    ELSE LET s1 == IF s.at /\ s.last THEN [s EXCEPT !.at = FALSE] ELSE s
         IN  IF s.at /\ s.escape_char \in {CTL_KEY_ESC, "{"}
             THEN [s1 EXCEPT !.escape_char = ToUpper(chr)]
             ELSE IF s1.escape_char = "{"
             THEN ExpectStringEnd(
                     [s1 EXCEPT !.nesting = CASE chr = "{" -> @ + 1
                                              [] chr = "}" -> @ - 1
                                              [] OTHER -> @],
                     chr)
             ELSE IF ToUpper(chr) = s1.escape_char
             THEN ExpectStringEnd([s1 EXCEPT !.nesting = @ - 1], chr)
             ELSE ExpectStringEnd(s1, chr)

\* StateExpectString::custom() for a character that is not '\0'
ExpectStringCustom(s, chr) ==
    LET s1 == IF s.at /\ s.last THEN [s EXCEPT !.at = FALSE] ELSE s
    IN  IF s.at /\ s.escape_char \in {CTL_KEY_ESC, "{"}
        THEN [s1 EXCEPT !.escape_char = ToUpper(chr)]
        ELSE IF s1.escape_char = "{"
        THEN ExpectStringEnd(
                [s1 EXCEPT !.nesting = CASE chr = "{" -> @ + 1
                                         [] chr = "}" -> @ - 1
                                         [] OTHER -> @],
                chr)
        ELSE IF ToUpper(chr) = s1.escape_char
        THEN ExpectStringEnd([s1 EXCEPT !.nesting = @ - 1], chr)
        ELSE ExpectStringEnd(s1, chr)

\* the state after the string state has returned: done() of a non-last
\* argument gives the state of the next argument, done() of the last one
\* the start state
StringNextState(s) ==
    IF ~s.done THEN states_current
    ELSE IF s.last THEN "start" ELSE "string_last"

\* case '@' of StateStart::custom() at the prompt
StringAt ==
    /\ states_current = "start"
    /\ ~mod_at
    /\ InstallMachine([Machine EXCEPT !.mod_at = TRUE])
    /\ UNCHANGED svars

\* a command with n string arguments is typed: its first string state is
\* entered
StringCommand(n) ==
    /\ states_current = "start"
    /\ InstallMachine([Machine EXCEPT
                          !.states_current = IF n = 1 THEN "string_last"
                                             ELSE "string_first"])
    /\ string_args' = <<>>
    /\ string_typed' = <<>>
    /\ string_cmd' = [n |-> n, at |-> mod_at]
    /\ UNCHANGED <<escape_char, nesting, strings, machine>>

\* a character is fed to the string state
StringInput(chr) ==
    /\ states_current \in StringStates
    /\ Len(string_typed) < MaxStringKeys
    /\ InstallMachine(
          [Machine EXCEPT
              !.mod_at = ExpectStringCustom(StringMachine, chr).at,
              !.states_current =
                  StringNextState(ExpectStringCustom(StringMachine, chr))])
    /\ escape_char' = ExpectStringCustom(StringMachine, chr).escape_char
    /\ nesting' = ExpectStringCustom(StringMachine, chr).nesting
    /\ strings' = ExpectStringCustom(StringMachine, chr).strings
    /\ machine' = ExpectStringCustom(StringMachine, chr).machine
    /\ string_args' =
          IF ExpectStringCustom(StringMachine, chr).done
          THEN Append(string_args,
                      ExpectStringCustom(StringMachine, chr).string)
          ELSE string_args
    /\ string_typed' = Append(string_typed, chr)
    /\ UNCHANGED string_cmd

(* ----------------------------------------------------------------------- *)
(* Path names and the file system                                          *)
(* A path is the sequence of its components; an absolute path starts with  *)
(* the root component "/".  The empty sequence is the NULL file name.      *)
(* ----------------------------------------------------------------------- *)
\* g_get_current_dir()
Cwd == <<"/">>

\* g_path_is_absolute()
IsAbsolute(path) == path # <<>> /\ path[1] = "/"

\* components of a path with the "." components dropped
RECURSIVE DropDots(_)
DropDots(path) ==
    IF path = <<>> THEN <<>>
    ELSE IF path[1] = "." THEN DropDots(Tail(path))
    ELSE <<path[1]>> \o DropDots(Tail(path))

\* the file a path names, as the operating system resolves it
Resolve(path) == DropDots(IF IsAbsolute(path) THEN path ELSE Cwd \o path)

\* g_file_test(path, G_FILE_TEST_IS_REGULAR)
FileExists(fs, path) == path # <<>> /\ Resolve(path) \in DOMAIN fs

\* get_absolute_path(): realpath(), which fails on a missing file, and then
\* the path itself or the current directory joined with it
GetAbsolutePath(fs, path) ==
    IF path = <<>> THEN <<>>
    ELSE IF FileExists(fs, path) THEN Resolve(path)
    ELSE IF IsAbsolute(path) THEN path
    ELSE Cwd \o path

\* g_file_set_contents()
WriteFile(fs, path, text) ==
    [k \in DOMAIN fs \cup {Resolve(path)} |->
        IF k = Resolve(path) THEN text ELSE fs[k]]

\* g_unlink()
Unlink(fs, path) == [k \in DOMAIN fs \ {Resolve(path)} |-> fs[k]]

\* g_rename(), on an existing file
Rename(fs, from, to) == WriteFile(Unlink(fs, from), to, fs[Resolve(from)])

\* make_savepoint(): <dirname>/.teco-<basename>-<savepoint_id>
SavepointName(filename, id) ==
    Front(filename) \o <<".teco-" \o Last(filename) \o "-" \o ToString(id)>>

(* ----------------------------------------------------------------------- *)
(* The document model's variables as one record.                           *)
(*   locals: QRegisters::locals of the executing macro (empty at top level)*)
(*   group:  undo tokens emitted by the command being executed             *)
(*   reuse:  whether the allocator hands out again an address that a       *)
(*           dangling pointer still holds                                  *)
(*   err:    message of the Error thrown ("" if none)                      *)
(*   ub:     freed memory has been used                                    *)
(*   new:    address returned by the last allocation                       *)
(*   str:    string returned by the last get_string()                      *)
(*   dot:    caret of the widget (SCI_GETCURRENTPOS)                       *)
(* ----------------------------------------------------------------------- *)
World ==
    [files |-> files, buffers |-> buffers, ring |-> ring,
     ring_current |-> ring_current, documents |-> documents, view |-> view,
     qregs |-> qregs, qreg_current |-> qreg_current,
     qreg_stack |-> qreg_stack, undo_tokens |-> undo_tokens,
     doc_event |-> doc_event, crashed |-> crashed, dot |-> dot,
     undo_enabled |-> undo_enabled,
     locals |-> <<>>, group |-> <<>>, reuse |-> FALSE, err |-> "",
     ub |-> FALSE, new |-> 0, str |-> "",
     args |-> <<>>, colon |-> FALSE, pushed |-> <<>>]

InstallWorld(w) ==
    /\ files' = w.files
    /\ buffers' = w.buffers
    /\ ring' = w.ring
    /\ ring_current' = w.ring_current
    /\ documents' = w.documents
    /\ view' = w.view
    /\ qregs' = w.qregs
    /\ qreg_current' = w.qreg_current
    /\ qreg_stack' = w.qreg_stack
    /\ undo_tokens' = w.undo_tokens
    /\ keys' = keys + 1
    /\ doc_event' = w.doc_event
    /\ crashed' = w.crashed
    /\ undo_enabled' = w.undo_enabled
    /\ dot' = w.dot
    /\ UNCHANGED <<pvars, sigint_occurred, svars>>

\* throw Error(msg); the first error wins
Fail(w, msg) == IF w.err = "" THEN [w EXCEPT !.err = msg] ELSE w

(* ----------------------------------------------------------------------- *)
(* Undo tokens of the document model.  Every token is a record of the same *)
(* shape: kind, buffer addresses b and n, document address d, register     *)
(* name q, path p, flag f, integers v and i.                               *)
(* ----------------------------------------------------------------------- *)
DocTok(k) ==
    [k |-> k, b |-> 0, n |-> 0, d |-> 0, q |-> "", p |-> <<>>, f |-> FALSE,
     v |-> 0, i |-> 0]

\* undo.push(token): nothing is kept unless undo.enabled
Push(w, tok) ==
    IF w.undo_enabled THEN [w EXCEPT !.group = Append(@, tok)] ELSE w

\* document addresses held by a sequence of tokens
TokenDocs(toks) ==
    {toks[i].d : i \in {j \in 1..Len(toks) :
        toks[j].k \in {"setdoc", "var_reg_string", "var_entry_string",
                       "stack_push"}}} \ {0}

\* buffer addresses held by a sequence of tokens
TokenBuffers(toks) ==
    {toks[i].b : i \in {j \in 1..Len(toks) :
        toks[j].k \in {"var_ring_current", "var_dirty", "str_filename",
                       "close", "edit", "restore_savepoint"}}} \ {0}

\* all tokens of the journal and of the executing command
AllTokens(w) ==
    LET RECURSIVE Flat(_)
        Flat(gs) == IF gs = <<>> THEN <<>> ELSE gs[1].toks \o Flat(Tail(gs))
    IN  Flat(w.undo_tokens) \o w.group

(* ----------------------------------------------------------------------- *)
(* Scintilla documents and the widget                                      *)
(* ----------------------------------------------------------------------- *)
\* a register of either table
IsLocal(w, q) == q \in DOMAIN w.locals

Reg(w, q) == IF IsLocal(w, q) THEN w.locals[q] ELSE w.qregs[q]

SetReg(w, q, r) ==
    IF IsLocal(w, q) THEN [w EXCEPT !.locals[q] = r]
    ELSE [w EXCEPT !.qregs[q] = r]

\* every document address some pointer of the program holds
HeldDocs(w) ==
    ({w.view} \cup {w.buffers[b].doc : b \in DOMAIN w.buffers}
        \cup {w.qregs[q].string : q \in DOMAIN w.qregs}
        \cup {w.locals[q].string : q \in DOMAIN w.locals}
        \cup {w.qreg_stack[i].string : i \in DOMAIN w.qreg_stack}
        \cup TokenDocs(AllTokens(w))) \ {0}

LiveDocs(w) == {d \in DOMAIN w.documents : w.documents[d].live}

\* the address malloc() returns: that of a freed object which a dangling
\* pointer still holds, if the allocator reuses one, or else an address
\* nothing refers to
Allocate(size, live, held, reuse) ==
    LET dangling == (held \cap (1..size)) \ live
        unused == ((1..size) \ live) \ held
    IN  IF reuse /\ dangling # {} THEN CHOOSE d \in dangling : TRUE
        ELSE IF unused # {}
             THEN CHOOSE d \in unused : \A e \in unused : d <= e
        ELSE size + 1

Store(seq, i, rec) ==
    IF i = Len(seq) + 1 THEN Append(seq, rec) ELSE [seq EXCEPT ![i] = rec]

\* SCI_CREATEDOCUMENT: the new document's address is w.new
CreateDocument(w) ==
    LET Created(d) ==
            [w EXCEPT !.documents =
                 Store(@, d, [text |-> "", hist |-> <<>>, live |-> TRUE]),
                      !.new = d]
    IN  Created(Allocate(Len(w.documents), LiveDocs(w), HeldDocs(w), w.reuse))

\* a pointer to a document is followed
UseDoc(w, d) ==
    IF d \in LiveDocs(w) THEN w ELSE [w EXCEPT !.ub = TRUE]

\* SCI_RELEASEDOCUMENT of the last reference
ReleaseDocument(w, d) ==
    IF d = 0 THEN w
    ELSE IF d \in LiveDocs(w) THEN [w EXCEPT !.documents[d].live = FALSE]
    ELSE [w EXCEPT !.ub = TRUE]

\* SCI_SETDOCPOINTER: the caret of a document newly shown is at its start
SetDocPointer(w, d) == [UseDoc(w, d) EXCEPT !.view = d, !.dot = 0]

\* SCI_GOTOPOS: Scintilla clamps the position to the document
SciGotoPos(w, pos) ==
    [w EXCEPT !.dot = IF pos < 0 THEN 0
                      ELSE IF pos > Len(w.documents[w.view].text)
                           THEN Len(w.documents[w.view].text)
                      ELSE pos]

\* SCI_SETTEXT, or SCI_CLEARALL and SCI_APPENDTEXT, within
\* SCI_BEGINUNDOACTION and SCI_ENDUNDOACTION: one step of the undo history
SetText(w, text) ==
    [UseDoc(w, w.view) EXCEPT
        !.documents[w.view].hist =
            IF w.undo_enabled THEN Append(@, w.documents[w.view].text)
            ELSE @,
        !.documents[w.view].text = text,
        !.dot = 0]

\* SCI_GETTEXT
GetText(w) == w.documents[w.view].text

\* SCI_UNDO
SciUndo(w) ==
    LET doc == w.documents[w.view]
    IN  IF doc.hist = <<>> THEN UseDoc(w, w.view)
        ELSE [UseDoc(w, w.view) EXCEPT
                 !.documents[w.view].hist = Front(doc.hist),
                 !.documents[w.view].text = Last(doc.hist),
                 !.dot = IF w.dot > Len(Last(doc.hist))
                         THEN Len(Last(doc.hist)) ELSE w.dot]

(* ----------------------------------------------------------------------- *)
(* Buffers (class Buffer is declared in qbuffers.h)                        *)
(* ----------------------------------------------------------------------- *)
LiveBuffers(w) == {b \in DOMAIN w.buffers : w.buffers[b].live}

\* every buffer address some pointer of the program holds
HeldBuffers(w) ==
    ({w.ring_current} \cup {w.ring[i] : i \in DOMAIN w.ring}
        \cup TokenBuffers(AllTokens(w))) \ {0}

\* a pointer to a buffer is followed
UseBuffer(w, b) ==
    IF b \in LiveBuffers(w) THEN w ELSE [w EXCEPT !.ub = TRUE]

\* new Buffer(): an unnamed, clean buffer with an empty document
NewBuffer(w) ==
    LET Made(w1, b) ==
            [w1 EXCEPT !.buffers =
                 Store(@, b, [filename |-> <<>>, dirty |-> FALSE,
                              savepoint_id |-> 0, doc |-> w1.new,
                              dot |-> 0, live |-> TRUE]),
                       !.new = b]
    IN  Made(CreateDocument(w),
             Allocate(Len(w.buffers), LiveBuffers(w), HeldBuffers(w), w.reuse))

\* delete buffer
DeleteBuffer(w, b) ==
    IF b \in LiveBuffers(w)
    THEN [ReleaseDocument(w, w.buffers[b].doc) EXCEPT
             !.buffers[b].live = FALSE]
    ELSE [w EXCEPT !.ub = TRUE]

\* Buffer::edit()
BufferEdit(w, b) ==
    SciGotoPos(SetDocPointer(UseBuffer(w, b), w.buffers[b].doc),
               w.buffers[b].dot)

\* Buffer::undo_edit()
BufferUndoEdit(w, b) ==
    Push(Push(UseBuffer(w, b),
              [DocTok("gotopos") EXCEPT !.v = w.buffers[b].dot]),
         [DocTok("setdoc") EXCEPT !.d = w.buffers[b].doc])

\* Buffer::set_filename()
BufferSetFilename(w, b, filename) ==
    [UseBuffer(w, b) EXCEPT
        !.buffers[b].filename = GetAbsolutePath(w.files, filename)]

\* Buffer::undo_close()
BufferUndoClose(w, b) == Push(w, [DocTok("close") EXCEPT !.b = b])

BufferLoad_NoText(w, b, filename) ==
    BufferSetFilename(BufferEdit(w, b), b, filename)

\* Buffer::load(), on a file that g_file_get_contents() can read
BufferLoad(w, b, filename) ==
    BufferSetFilename(SetText(BufferEdit(w, b), w.files[Resolve(filename)]),
                      b, filename)

(* ----------------------------------------------------------------------- *)
(* Q-Registers                                                             *)
(* ----------------------------------------------------------------------- *)
\* the text of a path
RECURSIVE PathString(_)
PathString(path) ==
    IF path = <<>> THEN ""
    ELSE IF Len(path) = 1 THEN path[1]
    ELSE IF path[1] = "/" THEN "/" \o PathString(Tail(path))
    ELSE path[1] \o "/" \o PathString(Tail(path))

\* position of a buffer in the ring (0 if it is not in the ring)
RingIndex(r, b) ==
    IF \E i \in DOMAIN r : r[i] = b
    THEN CHOOSE i \in DOMAIN r : r[i] = b /\ \A j \in 1..(i - 1) : r[j] # b
    ELSE 0

\* the buffer info register
BufferInfo == "*"

\* QRegisterData::get_document(): the string's document is created on
\* first use; its address is w.new
GetDocument(w, q) ==
    IF Reg(w, q).string # 0 THEN [w EXCEPT !.new = Reg(w, q).string]
    ELSE LET Own(w1) == SetReg(w1, q, [Reg(w1, q) EXCEPT !.string = w1.new])
         IN  Own(CreateDocument(w))

\* QRegisterData::edit()
QRegisterDataEdit(w, q) ==
    LET Edit(w1) == SciGotoPos(SetDocPointer(w1, w1.new), Reg(w1, q).dot)
    IN  Edit(GetDocument(w, q))

\* ring.current ? ring.current->filename : NULL
CurrentFilename(w) ==
    IF w.ring_current = 0 THEN <<>> ELSE w.buffers[w.ring_current].filename

\* QRegister::edit() and QRegisterBufferInfo::edit()
QRegisterEdit(w, q) ==
    IF q = BufferInfo
    THEN Push(SetText(QRegisterDataEdit(IF w.ring_current = 0 THEN w
                                        ELSE UseBuffer(w, w.ring_current),
                                        q),
                      PathString(CurrentFilename(w))),
              DocTok("sci_undo"))
    ELSE QRegisterDataEdit(w, q)

\* QRegister::undo_edit()
QRegisterUndoEdit(w, q) ==
    IF ~Reg(w, q).must_undo THEN w
    ELSE LET Journal(w1) ==
                 Push(Push(w1, [DocTok("gotopos") EXCEPT
                                   !.v = Reg(w1, q).dot]),
                      [DocTok("setdoc") EXCEPT !.d = w1.new])
         IN  Journal(GetDocument(w, q))

\* current_save_dot()
CurrentSaveDot(w) ==
    IF w.ring_current # 0
    THEN [UseBuffer(w, w.ring_current) EXCEPT
             !.buffers[w.ring_current].dot = w.dot]
    ELSE IF w.qreg_current # ""
         THEN SetReg(w, w.qreg_current,
                     [Reg(w, w.qreg_current) EXCEPT !.dot = w.dot])
    ELSE w

\* current_edit()
CurrentEdit(w) ==
    IF w.ring_current # 0 THEN BufferEdit(w, w.ring_current)
    ELSE IF w.qreg_current # "" THEN QRegisterEdit(w, w.qreg_current)
    ELSE w

\* QRegisterData::set_string()
SetString(w, q, str) ==
    LET Clear(w1) == SetReg(w1, q, [Reg(w1, q) EXCEPT !.dot = 0])
    IN  CurrentEdit(SetText(Clear(QRegisterEdit(w, q)), str))

\* the undo_edit() of the edited buffer or register
CurrentUndoEdit(w) ==
    IF w.ring_current # 0 THEN BufferUndoEdit(w, w.ring_current)
    ELSE IF w.qreg_current # "" THEN QRegisterUndoEdit(w, w.qreg_current)
    ELSE w

\* QRegisterData::undo_set_string()
UndoSetString(w, q) ==
    IF ~Reg(w, q).must_undo THEN CurrentSaveDot(w)
    ELSE LET VarDot(w1) == Push(w1, [DocTok("var_reg_dot") EXCEPT
                                        !.q = q, !.v = Reg(w1, q).dot])
         IN  QRegisterUndoEdit(Push(VarDot(CurrentUndoEdit(CurrentSaveDot(w))),
                                    DocTok("sci_undo")),
                               q)

\* QRegisterData::get_string() and QRegisterBufferInfo::get_string(): the
\* string returned is w.str
GetString(w, q) ==
    IF q = BufferInfo
    THEN [(IF w.ring_current = 0 THEN w ELSE UseBuffer(w, w.ring_current))
            EXCEPT !.str = PathString(CurrentFilename(w))]
    ELSE LET Read(w1) == CurrentEdit([w1 EXCEPT !.str = GetText(w1)])
         IN  Read(QRegisterEdit(CurrentSaveDot(w), q))

\* QRegister::get_integer() and QRegisterBufferInfo::get_integer(): the
\* number of the edited buffer in the ring
GetInteger(w, q) ==
    IF q = BufferInfo THEN RingIndex(w.ring, w.ring_current)
    ELSE Reg(w, q).integer

\* QRegister::set_integer()
SetInteger(w, q, v) == SetReg(w, q, [Reg(w, q) EXCEPT !.integer = v])

\* QRegister::undo_set_integer()
UndoSetInteger(w, q) ==
    IF ~Reg(w, q).must_undo THEN w
    ELSE Push(w, [DocTok("var_reg_integer") EXCEPT
                     !.q = q, !.v = Reg(w, q).integer])

(* ----------------------------------------------------------------------- *)
(* Q-Register stack                                                        *)
(* ----------------------------------------------------------------------- *)
\* QRegisterStack::push(): the entry is a QRegisterData of its own, its
\* string is set through the widget like that of a register
QRegisterStackPush(w, q) ==
    LET Insert(w1) ==
            Push([w1 EXCEPT !.qreg_stack =
                     <<[string |-> w1.new,
                        integer |-> GetInteger(w1, q),
                        dot |-> Reg(w1, q).dot]>> \o @],
                 DocTok("stack_pop"))
        SetEntry(c) ==
            [CurrentEdit(SetText(SetDocPointer(c, c.new), c.str)) EXCEPT
                !.new = c.new]
    IN  Insert(IF Reg(w, q).string = 0 THEN [w EXCEPT !.new = 0]
               ELSE SetEntry(CreateDocument(GetString(w, q))))

\* QRegisterStack::pop(): the documents of the entry and of the register
\* are exchanged, the entry passes to the undo token
QRegisterStackPop(w, q) ==
    IF w.qreg_stack = <<>> THEN Fail(w, "Q-Register stack is empty")
    ELSE LET entry == w.qreg_stack[1]
             reg == Reg(w, q)
             w0 == SetInteger(UndoSetInteger(w, q), q, entry.integer)
             w1 == IF reg.must_undo
                   THEN Push(w0, [DocTok("var_reg_string") EXCEPT
                                     !.q = q, !.d = reg.string])
                   ELSE w0
             w2 == SetReg(w1, q, [Reg(w1, q) EXCEPT !.string = entry.string])
             w3 == Push(w2, [DocTok("var_entry_string") EXCEPT
                                !.d = entry.string])
             w4 == IF reg.must_undo
                   THEN Push(w3, [DocTok("var_reg_dot") EXCEPT
                                     !.q = q, !.v = reg.dot])
                   ELSE w3
             w5 == SetReg(w4, q, [Reg(w4, q) EXCEPT !.dot = entry.dot])
             w6 == [w5 EXCEPT !.qreg_stack = Tail(@)]
         IN  Push(w6, [DocTok("stack_push") EXCEPT
                          !.d = reg.string, !.v = entry.dot,
                          !.i = entry.integer])

\* QRegisterStack::UndoTokenPush::run()
UndoTokenPushRun(w, tok) ==
    [w EXCEPT !.qreg_stack =
        <<[string |-> tok.d, integer |-> tok.i, dot |-> tok.v]>> \o @]

\* QRegisterStack::UndoTokenPop::run(): delete entry releases its document
UndoTokenPopRun(w) ==
    IF w.qreg_stack = <<>> THEN [w EXCEPT !.ub = TRUE]
    ELSE ReleaseDocument([w EXCEPT !.qreg_stack = Tail(@)],
                         w.qreg_stack[1].string)

(* ----------------------------------------------------------------------- *)
(* The buffer ring                                                         *)
(* ----------------------------------------------------------------------- *)
\* buffer->next() ?: buffer->prev(), read after TAILQ_REMOVE
NextOf(r, b) ==
    LET i == RingIndex(r, b) IN IF 0 < i /\ i < Len(r) THEN r[i + 1] ELSE 0

PrevOf(r, b) ==
    LET i == RingIndex(r, b) IN IF i > 1 THEN r[i - 1] ELSE 0

\* Ring::find(const gchar *): g_strcmp0() also matches NULL with NULL
RingFind(w, filename) ==
    LET resolved == GetAbsolutePath(w.files, filename)
        hits == {i \in DOMAIN w.ring :
                    w.buffers[w.ring[i]].filename = resolved}
    IN  IF hits = {} THEN 0
        ELSE w.ring[CHOOSE i \in hits : \A j \in hits : i <= j]

\* Ring::undo_edit(): journals the switch away from the current buffer, so
\* that a rollback makes it the edited entity again
RingUndoEdit(w) ==
    LET Saved(w0) == [w0 EXCEPT !.buffers[w.ring_current].dot = w.dot]
        Journal(w1) ==
            Push(Push(w1, [DocTok("var_qreg_current") EXCEPT
                              !.q = w.qreg_current]),
                 [DocTok("var_ring_current") EXCEPT !.b = w.ring_current])
    IN  BufferUndoEdit(Journal(Saved(UseBuffer(w, w.ring_current))),
                       w.ring_current)

\* QRegisters::undo_edit()
QRegistersUndoEdit(w) ==
    IF w.qreg_current = "" THEN [w EXCEPT !.ub = TRUE]
    ELSE QRegisterUndoEdit(Push(SetReg(w, w.qreg_current,
                                       [Reg(w, w.qreg_current) EXCEPT
                                           !.dot = w.dot]),
                                [DocTok("var_qreg_current") EXCEPT
                                    !.q = w.qreg_current]),
                           w.qreg_current)

\* QRegisterTable::edit(QRegister *)
QRegisterTableEdit(w, q) ==
    [QRegisterEdit(CurrentSaveDot(w), q) EXCEPT
        !.ring_current = 0, !.qreg_current = q]

\* Ring::edit(const gchar *), with the ED hooks disabled
RingEdit(w, filename) ==
    LET Insert(w2) ==
            BufferUndoClose([w2 EXCEPT !.ring = Append(@, w2.new),
                                       !.ring_current = w2.new],
                            w2.new)
        Load(w4) ==
            IF FileExists(w4.files, filename)
            THEN BufferLoad(w4, w4.ring_current, filename)
            ELSE BufferSetFilename(BufferEdit(w4, w4.ring_current),
                                   w4.ring_current, filename)
        Edit(w1, buffer) ==
            IF buffer # 0
            THEN BufferEdit([w1 EXCEPT !.ring_current = buffer], buffer)
            ELSE Load(Insert(NewBuffer(w1)))
    IN  Edit([CurrentSaveDot(w) EXCEPT !.qreg_current = ""],
             RingFind(w, filename))

\* make_savepoint()
MakeSavepoint(w, b) ==
    LET buf == w.buffers[b]
        savepoint == SavepointName(buf.filename, buf.savepoint_id)
    IN  Push([w EXCEPT !.files = Rename(@, buf.filename, savepoint),
                       !.buffers[b].savepoint_id = @ + 1],
             [DocTok("restore_savepoint") EXCEPT !.p = savepoint, !.b = b])

\* Ring::save(), with writable files
RingSave(w, name) ==
    LET b == w.ring_current
        filename == IF name = <<>> THEN w.buffers[b].filename ELSE name
        Token(w0) ==
            IF FileExists(w0.files, w0.buffers[b].filename)
            THEN MakeSavepoint(w0, b)
            ELSE Push(w0, [DocTok("remove_file") EXCEPT !.p = filename])
        Write(w1) ==
            [w1 EXCEPT !.files =
                 WriteFile(@, filename, w1.documents[w1.view].text)]
        Clean(w2) ==
            [Push(w2, [DocTok("var_dirty") EXCEPT
                          !.b = b, !.f = w2.buffers[b].dirty])
                EXCEPT !.buffers[b].dirty = FALSE]
        Name(w3) ==
            BufferSetFilename(
                Push(w3, [DocTok("str_filename") EXCEPT
                             !.b = b, !.p = w3.buffers[b].filename]),
                b, filename)
    IN  IF b = 0 THEN Fail(w, "Unable to save file")
        ELSE IF filename = <<>>
        THEN Fail(UseBuffer(w, b), "Unable to save file")
        ELSE Name(Clean(Write(Token(UseBuffer(w, b)))))

\* Ring::close(Buffer *)
RingCloseBuffer(w, b) ==
    IF RingIndex(w.ring, b) = 0 THEN [w EXCEPT !.ub = TRUE]
    ELSE [w EXCEPT !.ring = RemoveAt(@, RingIndex(w.ring, b))]

\* Ring::close(), with the ED hooks disabled
RingClose(w) ==
    LET buffer == w.ring_current
        next == NextOf(w.ring, buffer)
        prev == PrevOf(w.ring, buffer)
        current == IF next # 0 THEN next ELSE prev
        Reopen(w3) == BufferUndoClose(w3, w3.ring_current)
        Edit(w2) == IF current # 0 THEN BufferEdit(w2, current)
                    ELSE Reopen(RingEdit(w2, <<>>))
        Saved(w1) == [w1 EXCEPT !.buffers[buffer].dot = w.dot]
    IN  Edit(Push([RingCloseBuffer(Saved(UseBuffer(w, buffer)), buffer) EXCEPT
                      !.ring_current = current],
                  [DocTok("edit") EXCEPT !.b = buffer, !.n = next]))

(* ----------------------------------------------------------------------- *)
(* Running the undo tokens of the document model                           *)
(* ----------------------------------------------------------------------- *)
\* Buffer::UndoTokenClose::run()
UndoTokenCloseRun(w, tok) == DeleteBuffer(RingCloseBuffer(w, tok.b), tok.b)

UndoTokenEditRun_AtTail(w, tok) ==
    BufferEdit([w EXCEPT !.ring = Append(@, tok.b), !.ring_current = tok.b],
               tok.b)

\* Ring::UndoTokenEdit::run(): the closed buffer still has its next pointer
UndoTokenEditRun(w, tok) ==
    LET i == RingIndex(w.ring, tok.n)
        w1 == IF tok.n = 0 THEN [w EXCEPT !.ring = Append(@, tok.b)]
              ELSE IF i = 0 THEN [w EXCEPT !.ub = TRUE]
              ELSE [w EXCEPT !.ring = SubSeq(@, 1, i - 1) \o <<tok.b>>
                                         \o SubSeq(@, i, Len(@))]
    IN  BufferEdit([w1 EXCEPT !.ring_current = tok.b], tok.b)

\* UndoTokenRestoreSavePoint::run() and the token's destructor
UndoTokenRestoreSavePointRun(w, tok) ==
    LET filename == w.buffers[tok.b].filename
        w1 == UseBuffer(w, tok.b)
        w2 == IF ~FileExists(w1.files, tok.p) THEN w1
              ELSE IF filename = <<>>
                   THEN [w1 EXCEPT !.files = Unlink(@, tok.p)]
              ELSE [w1 EXCEPT !.files = Rename(@, tok.p, filename)]
    IN  [w2 EXCEPT !.buffers[tok.b].savepoint_id = @ - 1]

RunDocToken(w, tok) ==
    CASE tok.k = "setdoc" -> SetDocPointer(w, tok.d)
      [] tok.k = "gotopos" -> SciGotoPos(w, tok.v)
      [] tok.k = "var_reg_dot" ->
            SetReg(w, tok.q, [Reg(w, tok.q) EXCEPT !.dot = tok.v])
      [] tok.k = "var_reg_integer" ->
            SetReg(w, tok.q, [Reg(w, tok.q) EXCEPT !.integer = tok.v])
      [] tok.k = "sci_undo" -> SciUndo(w)
      [] tok.k = "var_ring_current" -> [w EXCEPT !.ring_current = tok.b]
      [] tok.k = "var_qreg_current" -> [w EXCEPT !.qreg_current = tok.q]
      [] tok.k = "var_dirty" ->
            [UseBuffer(w, tok.b) EXCEPT !.buffers[tok.b].dirty = tok.f]
      [] tok.k = "str_filename" ->
            [UseBuffer(w, tok.b) EXCEPT !.buffers[tok.b].filename = tok.p]
      [] tok.k = "var_reg_string" ->
            SetReg(w, tok.q, [Reg(w, tok.q) EXCEPT !.string = tok.d])
      [] tok.k = "var_entry_string" ->
            IF w.qreg_stack = <<>> THEN [w EXCEPT !.ub = TRUE]
            ELSE [w EXCEPT !.qreg_stack[1].string = tok.d]
      [] tok.k = "close" -> UndoTokenCloseRun(w, tok)
      [] tok.k = "edit" -> UndoTokenEditRun(w, tok)
      [] tok.k = "restore_savepoint" -> UndoTokenRestoreSavePointRun(w, tok)
      [] tok.k = "remove_file" -> [w EXCEPT !.files = Unlink(@, tok.p)]
      [] tok.k = "stack_pop" -> UndoTokenPopRun(w)
      [] tok.k = "stack_push" -> UndoTokenPushRun(w, tok)

\* undo.pop(): the tokens of one character, last first
RECURSIVE RunDocTokens(_, _)
RunDocTokens(w, toks) ==
    IF toks = <<>> THEN w
    ELSE RunDocTokens(RunDocToken(w, Last(toks)), Front(toks))

(* ----------------------------------------------------------------------- *)
(* Commands of the document model                                          *)
(* ----------------------------------------------------------------------- *)
\* StateEditFile::do_edit(const gchar *)
DoEdit(w, filename) ==
    RingEdit(IF w.ring_current # 0 THEN RingUndoEdit(w)
             ELSE QRegistersUndoEdit(w),
             filename)

\* StateSaveFile::done()
StateSaveFileDone(w, str) == RingSave(w, str)

\* StateECommand::custom(), case 'F', without a numeric argument
CloseFile(w) ==
    IF w.qreg_current # "" THEN Fail(w, "Q-Register currently edited")
    ELSE IF w.ring_current = 0 THEN [w EXCEPT !.ub = TRUE]
    ELSE IF w.buffers[w.ring_current].dirty
         THEN Fail(UseBuffer(w, w.ring_current), "Buffer is dirty")
    ELSE RingClose(w)

\* StateLoadQReg::done(), with an empty string argument
StateLoadQRegDone(w, q) ==
    QRegisterTableEdit(IF w.ring_current # 0 THEN RingUndoEdit(w)
                       ELSE QRegistersUndoEdit(w),
                       q)

\* StateSetQRegString::done()
StateSetQRegStringDone(w, q, str) == SetString(UndoSetString(w, q), q, str)

\* StateSetQRegInteger::got_register()
StateSetQRegIntegerDone(w, q, v) == SetInteger(UndoSetInteger(w, q), q, v)

\* current_doc_must_undo()
CurrentDocMustUndo(w) ==
    w.qreg_current = "" \/ Reg(w, w.qreg_current).must_undo

\* StateStart::custom(), case 'J', on the edited document
StateStartJump(w, v) ==
    IF ~ValidatePos(GetText(w), v)
    THEN Fail(w, "Attempt to move pointer off page with <J>")
    ELSE SciGotoPos(IF CurrentDocMustUndo(w)
                    THEN Push(w, [DocTok("gotopos") EXCEPT !.v = w.dot])
                    ELSE w,
                    v)

(* ----------------------------------------------------------------------- *)
(* Commands that change the text of the edited document.  The command's    *)
(* numeric arguments are w.args (the last one is the top of the expression *)
(* stack), w.colon is the colon flag, w.pushed what the command pushes.    *)
(* ----------------------------------------------------------------------- *)
\* Ring::dirtify() that keeps no undo token
RingDirtify_NoToken(w) ==
    IF w.ring_current = 0 \/ w.buffers[w.ring_current].dirty THEN w
    ELSE [UseBuffer(w, w.ring_current) EXCEPT
             !.buffers[w.ring_current].dirty = TRUE]

\* Ring::dirtify()
RingDirtify(w) ==
    IF w.ring_current = 0 \/ w.buffers[w.ring_current].dirty THEN w
    ELSE [Push(UseBuffer(w, w.ring_current),
               [DocTok("var_dirty") EXCEPT !.b = w.ring_current,
                                           !.f = FALSE])
             EXCEPT !.buffers[w.ring_current].dirty = TRUE]

\* the caret after Scintilla has deleted len characters at from
CaretAfterDelete(pos, from, len) ==
    IF pos >= from + len THEN pos - len
    ELSE IF pos > from THEN from
    ELSE pos

\* SCI_DELETERANGE within SCI_BEGINUNDOACTION and SCI_ENDUNDOACTION
SciDeleteRange(w, from, len) ==
    [UseDoc(w, w.view) EXCEPT
        !.documents[w.view].hist =
            IF w.undo_enabled THEN Append(@, w.documents[w.view].text)
            ELSE @,
        !.documents[w.view].text =
            SubSeq(@, 1, from) \o SubSeq(@, from + len + 1, Len(@)),
        !.dot = CaretAfterDelete(w.dot, from, len)]

\* expressions.pop_num_calc(): the argument, or the implied sign prefix
PopNumCalc(w) == IF w.args = <<>> THEN 1 ELSE Last(w.args)

\* if (eval_colon()) expressions.push(rc); else if (IS_FAILURE(rc)) throw
PushOrThrow(w, ok, msg) ==
    IF w.colon
    THEN [w EXCEPT !.pushed = <<IF ok THEN Success ELSE Failure>>]
    ELSE IF ok THEN w
    ELSE Fail(w, msg)

\* undo_ssm(SCI_GOTOPOS, dot) and undo_ssm(SCI_UNDO) if the document of
\* the view has to be undone
UndoDeletion(w) ==
    IF CurrentDocMustUndo(w)
    THEN Push(Push(w, [DocTok("gotopos") EXCEPT !.v = w.dot]),
              DocTok("sci_undo"))
    ELSE w

\* cases 'K' and 'D': the line that nK deletes up to
DeleteLine(w) == LineFromPosition(GetText(w), w.dot) + PopNumCalc(w)

\* cases 'K' and 'D': len before its sign is removed
DeleteSpan(w, chr) ==
    IF Len(w.args) > 1 THEN w.args[2] - w.args[1]
    ELSE IF chr = "D" THEN PopNumCalc(w)
    ELSE IF ValidateLine(GetText(w), DeleteLine(w))
    THEN PositionFromLine(GetText(w), DeleteLine(w)) - w.dot
    ELSE 0

\* cases 'K' and 'D': rc with the check of the order of from and to left out
DeleteValid_AnyOrder(w, chr) ==
    IF Len(w.args) > 1
    THEN /\ ValidatePos(GetText(w), w.args[1])
         /\ ValidatePos(GetText(w), w.args[2])
    ELSE IF chr = "D" THEN ValidatePos(GetText(w), w.dot + PopNumCalc(w))
    ELSE ValidateLine(GetText(w), DeleteLine(w))

\* cases 'K' and 'D': rc
DeleteValid(w, chr) ==
    IF Len(w.args) > 1
    THEN /\ DeleteSpan(w, chr) >= 0
         /\ ValidatePos(GetText(w), w.args[1])
         /\ ValidatePos(GetText(w), w.args[2])
    ELSE IF chr = "D" THEN ValidatePos(GetText(w), w.dot + PopNumCalc(w))
    ELSE ValidateLine(GetText(w), DeleteLine(w))

\* cases 'K' and 'D': from
DeleteFrom(w, chr) ==
    IF Len(w.args) > 1 THEN w.args[1]
    ELSE IF DeleteSpan(w, chr) < 0 THEN w.dot + DeleteSpan(w, chr)
    ELSE w.dot

\* cases 'K' and 'D': len
DeleteLen(w, chr) ==
    IF Len(w.args) <= 1 /\ DeleteSpan(w, chr) < 0
    THEN 0 - DeleteSpan(w, chr)
    ELSE DeleteSpan(w, chr)

\* StateStart::custom(), cases 'K' and 'D', on the edited document
StateStartDelete(w, chr) ==
    IF DeleteLen(w, chr) = 0 \/ ~DeleteValid(w, chr)
    THEN PushOrThrow(w, DeleteValid(w, chr), "Range error")
    ELSE RingDirtify(
            SciDeleteRange(
                UndoDeletion(PushOrThrow(w, TRUE, "Range error")),
                DeleteFrom(w, chr), DeleteLen(w, chr)))

\* the loop of delete_words() for n > 0: SCI_DELWORDRIGHTEND until the
\* length stays; n is the counter after the loop, -1 if it ran to its end
RECURSIVE WordsRight(_, _, _)
WordsRight(text, pos, n) ==
    IF n = 0 THEN [text |-> text, dot |-> pos, n |-> 0 - 1]
    ELSE IF WordRightEnd(text, pos) = pos
    THEN [text |-> text, dot |-> pos, n |-> n - 1]
    ELSE WordsRight(SubSeq(text, 1, pos)
                        \o SubSeq(text, WordRightEnd(text, pos) + 1,
                                  Len(text)),
                    pos, n - 1)

\* the loop of delete_words() for n < 0, n being the number of words:
\* SCI_WORDLEFTEND, and SCI_DELWORDRIGHTEND from there, until the caret
\* stays
RECURSIVE WordsLeft(_, _, _)
WordsLeft(text, pos, n) ==
    IF n = 0 THEN [text |-> text, dot |-> pos, n |-> 0 - 1]
    ELSE IF WordLeftEnd(text, pos) = pos
    THEN [text |-> text, dot |-> pos, n |-> n - 1]
    ELSE WordsLeft(SubSeq(text, 1, WordLeftEnd(text, pos))
                       \o SubSeq(text,
                                 WordRightEnd(text, WordLeftEnd(text, pos))
                                     + 1,
                                 Len(text)),
                   WordLeftEnd(text, pos), n - 1)

\* both loops of delete_words()
WordsLoop(text, pos, n) ==
    IF n > 0 THEN WordsRight(text, pos, n) ELSE WordsLeft(text, pos, 0 - n)

\* the deletions of delete_words() between SCI_BEGINUNDOACTION and
\* SCI_ENDUNDOACTION: one step of the undo history if it is collected
SciDeleteWords(w, loop) ==
    [UseDoc(w, w.view) EXCEPT
        !.documents[w.view].hist =
            IF w.undo_enabled /\ loop.text # w.documents[w.view].text
            THEN Append(@, w.documents[w.view].text)
            ELSE @,
        !.documents[w.view].text = loop.text,
        !.dot = loop.dot]

\* delete_words() after a loop that was left early: SCI_UNDO and
\* SCI_GOTOPOS if the length has changed
DeleteWordsFailed(w, before) ==
    IF Len(GetText(w)) # Len(GetText(before))
    THEN SciGotoPos(SciUndo(w), before.dot)
    ELSE w

\* delete_words() after a loop that ran to its end
DeleteWordsDone(w, before) ==
    RingDirtify(
        IF CurrentDocMustUndo(w)
        THEN Push(Push(w, [DocTok("gotopos") EXCEPT !.v = before.dot]),
                  DocTok("sci_undo"))
        ELSE Push(w, [DocTok("gotopos") EXCEPT !.v = before.dot]))

\* StateStart::delete_words(): the world it leaves; w.pushed is its result
DeleteWords(w, n) ==
    IF n = 0 THEN [w EXCEPT !.pushed = <<Success>>]
    ELSE IF WordsLoop(GetText(w), w.dot, n).n >= 0
    THEN [DeleteWordsFailed(
              SciDeleteWords(w, WordsLoop(GetText(w), w.dot, n)), w)
             EXCEPT !.pushed = <<Failure>>]
    ELSE [DeleteWordsDone(
              SciDeleteWords(w, WordsLoop(GetText(w), w.dot, n)), w)
             EXCEPT !.pushed = <<Success>>]

\* StateStart::custom(), cases 'V' and 'Y', on the edited document
StateStartDeleteWords(w, chr) ==
    IF w.colon
    THEN DeleteWords(w, IF chr = "V" THEN PopNumCalc(w)
                        ELSE 0 - PopNumCalc(w))
    ELSE IF DeleteWords(w, IF chr = "V" THEN PopNumCalc(w)
                           ELSE 0 - PopNumCalc(w)).pushed = <<Failure>>
    THEN Fail([DeleteWords(w, IF chr = "V" THEN PopNumCalc(w)
                              ELSE 0 - PopNumCalc(w))
                  EXCEPT !.pushed = <<>>],
              "Not enough words to delete with <" \o chr \o ">")
    ELSE [DeleteWords(w, IF chr = "V" THEN PopNumCalc(w)
                         ELSE 0 - PopNumCalc(w))
             EXCEPT !.pushed = <<>>]

\* SCI_ADDTEXT within SCI_BEGINUNDOACTION and SCI_ENDUNDOACTION: the text
\* goes in at the caret, which ends behind it
SciAddText(w, str) ==
    [UseDoc(w, w.view) EXCEPT
        !.documents[w.view].hist =
            IF w.undo_enabled THEN Append(@, w.documents[w.view].text)
            ELSE @,
        !.documents[w.view].text =
            SubSeq(@, 1, w.dot) \o str \o SubSeq(@, w.dot + 1, Len(@)),
        !.dot = w.dot + Len(str)]

\* if (current_doc_must_undo()) interface.undo_ssm(SCI_UNDO)
UndoInsertion(w) ==
    IF CurrentDocMustUndo(w) THEN Push(w, DocTok("sci_undo")) ELSE w

\* StateInsert::process()
StateInsertProcess(w, str) == UndoInsertion(RingDirtify(SciAddText(w, str)))

\* Expressions::format() of a number that is not negative, radix 10
RECURSIVE Format(_)
Format(v) ==
    IF v < Radix
    THEN CASE v = 0 -> "0" [] v = 1 -> "1" [] v = 2 -> "2" [] v = 3 -> "3"
           [] v = 4 -> "4" [] v = 5 -> "5" [] v = 6 -> "6" [] v = 7 -> "7"
           [] v = 8 -> "8" [] v = 9 -> "9"
    ELSE Format(v \div Radix) \o Format(v % Radix)

\* StateStart::insert_integer()
InsertInteger(w, v) == UndoInsertion(RingDirtify(SciAddText(w, Format(v))))

\* StateGetQRegString::got_register()
StateGetQRegStringDone(w, q) ==
    IF GetString(w, q).str = "" THEN GetString(w, q)
    ELSE Push(RingDirtify(SciAddText(GetString(w, q),
                                     GetString(w, q).str)),
              DocTok("sci_undo"))

\* SCI_APPENDTEXT within SCI_BEGINUNDOACTION and SCI_ENDUNDOACTION
SciAppendText(w, str) ==
    [UseDoc(w, w.view) EXCEPT
        !.documents[w.view].hist =
            IF w.undo_enabled THEN Append(@, w.documents[w.view].text)
            ELSE @,
        !.documents[w.view].text = @ \o str]

\* QRegisterData::append_string() of a string that is not NULL
AppendString(w, q, str) == CurrentEdit(SciAppendText(QRegisterEdit(w, q), str))

\* StateCopyToQReg::got_register(): the line that nXq copies up to
CopyLine(w) == LineFromPosition(GetText(w), w.dot) + PopNumCalc(w)

\* StateCopyToQReg::got_register(): no RangeError is thrown
CopyValid(w) ==
    IF Len(w.args) > 1
    THEN /\ ValidatePos(GetText(w), w.args[1])
         /\ ValidatePos(GetText(w), w.args[2])
    ELSE ValidateLine(GetText(w), CopyLine(w))

\* StateCopyToQReg::got_register(): len before its sign is removed
CopySpan(w) ==
    IF Len(w.args) > 1 THEN w.args[2] - w.args[1]
    ELSE PositionFromLine(GetText(w), CopyLine(w)) - w.dot

\* StateCopyToQReg::got_register(): from
CopyFrom(w) ==
    IF Len(w.args) > 1 THEN w.args[1]
    ELSE IF CopySpan(w) < 0 THEN w.dot + CopySpan(w)
    ELSE w.dot

\* StateCopyToQReg::got_register(): len
CopyLen(w) ==
    IF Len(w.args) <= 1 /\ CopySpan(w) < 0 THEN 0 - CopySpan(w)
    ELSE CopySpan(w)

\* SCI_GETTEXTRANGE of cpMin = from and cpMax = from + len, 0 <= len
SciGetTextRange(w, from, len) == SubSeq(GetText(w), from + 1, from + len)

\* StateCopyToQReg::got_register(): the register is set or appended to;
\* undo_append_string() is undo_set_string()
CopyStore(w, q, str) ==
    IF w.colon THEN AppendString(UndoSetString(w, q), q, str)
    ELSE SetString(UndoSetString(w, q), q, str)

\* StateCopyToQReg::got_register().  With len < 0 the buffer of
\* g_malloc(len + 1) is NULL (len = -1) or cannot be allocated, and
\* SCI_GETTEXTRANGE terminates at lpstrText[len]: memory that is not the
\* program's is written; where that goes unnoticed the string is empty
StateCopyToQRegDone(w, q) ==
    IF ~CopyValid(w) THEN Fail(w, "Range error")
    ELSE IF CopyLen(w) < 0 THEN [CopyStore(w, q, "") EXCEPT !.ub = TRUE]
    ELSE CopyStore(w, q, SciGetTextRange(w, CopyFrom(w), CopyLen(w)))

\* the local Q-Register of a macro invocation
Local == ".L"

\* a command of a macro body, applied to the local Q-Register
MacroCommand(w, c) ==
    CASE c = "[" -> QRegisterStackPush(w, Local)
      [] c = "]" -> QRegisterStackPop(w, Local)
      [] c = "U" -> StateSetQRegStringDone(w, Local, "x")

RECURSIVE MacroCommands(_, _)
MacroCommands(w, body) ==
    IF body = <<>> \/ w.err # "" THEN w
    ELSE MacroCommands(MacroCommand(w, body[1]), Tail(body))

\* the local registers are destroyed with their table
ClearLocals(w) ==
    LET w1 == IF w.qreg_current \in DOMAIN w.locals
              THEN Fail(w, "Q-Register currently edited")
              ELSE w
        w2 == IF Local \in DOMAIN w.locals
              THEN ReleaseDocument(w1, w.locals[Local].string)
              ELSE w1
    IN  [w2 EXCEPT !.locals = <<>>]

\* Execute::macro(macro, true): a table of local Q-Registers that are not
\* undone lives for the time of the invocation
ExecuteMacroLocals(w, body) ==
    LET w1 == [w EXCEPT !.locals =
                  [q \in {Local} |-> [string |-> 0, must_undo |-> FALSE,
                                      integer |-> 0, dot |-> 0]]]
    IN  ClearLocals(MacroCommands(w1, body))

(* ----------------------------------------------------------------------- *)
(* Actions of the document model: one command of the command line each     *)
(* ----------------------------------------------------------------------- *)
\* most commands the user types and rubs out in a session
MaxKeys == 5

\* most commands of a session that changes text
MaxEdits == 3

FileNames == {<<>>, <<"a">>, <<".", "a">>, <<"b">>}

SaveNames == {<<>>, <<"a">>, <<"b">>}

Strings == {"", "x"}

GlobalNames == {"A", BufferInfo}

MacroBodies == {<<"]">>, <<"U", "[", "]">>}

\* what a rollback of the command has to restore
Snapshot(w) ==
    [files |-> w.files, buffers |-> w.buffers, ring |-> w.ring,
     ring_current |-> w.ring_current, dot |-> w.dot]

DocEvent(kind, cmd, name, q, str, before) ==
    [kind |-> kind, cmd |-> cmd, name |-> name, q |-> q, str |-> str,
     before |-> before, args |-> <<>>, colon |-> FALSE, pushed |-> <<>>]

\* the command line after a command: its tokens are one group of the
\* journal; a command that threw is rolled back and rejected
Settle(w, cmd, name, q, str) ==
    IF w.err # ""
    THEN [RunDocTokens(w, w.group) EXCEPT
             !.doc_event = [DocEvent("error", cmd, name, q, str,
                                     Snapshot(World))
                               EXCEPT !.args = w.args, !.colon = w.colon]]
    ELSE [w EXCEPT
             !.undo_tokens =
                 IF w.undo_enabled
                 THEN Append(@, [toks |-> w.group, cmd |-> cmd,
                                 before |-> Snapshot(World)])
                 ELSE @,
             !.doc_event = [DocEvent("done", cmd, name, q, str,
                                     Snapshot(World))
                               EXCEPT !.args = w.args, !.colon = w.colon,
                                      !.pushed = w.pushed]]

\* freed objects that no pointer holds any more cannot be told apart:
\* their bytes are blanked and the top of the heap is given back
RECURSIVE Trim(_, _)
Trim(seq, keep) ==
    IF seq = <<>> \/ Len(seq) \in keep THEN seq ELSE Trim(Front(seq), keep)

Scrub(w) ==
    LET keepd == LiveDocs(w) \cup HeldDocs(w)
        keepb == LiveBuffers(w) \cup HeldBuffers(w)
        docs == [d \in DOMAIN w.documents |->
                    IF d \in keepd THEN w.documents[d]
                    ELSE [text |-> "", hist |-> <<>>, live |-> FALSE]]
        bufs == [b \in DOMAIN w.buffers |->
                    IF b \in keepb THEN w.buffers[b]
                    ELSE [filename |-> <<>>, dirty |-> FALSE,
                          savepoint_id |-> 0, doc |-> 0, dot |-> 0,
                          live |-> FALSE]]
    IN  [w EXCEPT !.documents = Trim(docs, keepd),
                  !.buffers = Trim(bufs, keepb)]

\* a use of freed memory either kills the process or goes unnoticed, the
\* freed object still holding its last bytes
Outcome(w) ==
    \/ InstallWorld(Scrub(w))
    \/ /\ w.ub
       /\ crashed' = TRUE
       /\ keys' = keys + 1
       /\ UNCHANGED <<files, buffers, ring, ring_current, documents, view,
                      qregs, qreg_current, qreg_stack, undo_tokens,
                      doc_event, undo_enabled, pvars, sigint_occurred, dot,
                      svars>>

Ready == ~crashed /\ keys < MaxKeys

\* the world at the start of a command
Start(reuse) == [World EXCEPT !.reuse = reuse]

\* EB<name>$
EditFile(name) ==
    /\ Ready
    /\ \E reuse \in BOOLEAN :
          Outcome(Settle(DoEdit(Start(reuse), name), "EB", name, "", ""))

\* EW<name>$
SaveFile(name) ==
    /\ Ready
    /\ Outcome(Settle(StateSaveFileDone(Start(FALSE), name),
                      "EW", name, "", ""))

\* EF
CloseBuffer ==
    /\ Ready
    /\ \E reuse \in BOOLEAN :
          Outcome(Settle(CloseFile(Start(reuse)), "EF", <<>>, "", ""))

\* EQq$
EditQReg(q) ==
    /\ Ready
    /\ \E reuse \in BOOLEAN :
          Outcome(Settle(StateLoadQRegDone(Start(reuse), q),
                         "EQ", <<>>, q, ""))

\* ^Uq<str>$
SetQRegString(q, str) ==
    /\ Ready
    /\ \E reuse \in BOOLEAN :
          Outcome(Settle(StateSetQRegStringDone(Start(reuse), q, str),
                         "^U", <<>>, q, str))

\* [q
PushQReg(q) ==
    /\ Ready
    /\ \E reuse \in BOOLEAN :
          Outcome(Settle(QRegisterStackPush(Start(reuse), q),
                         "[", <<>>, q, ""))

\* ]q
PopQReg(q) ==
    /\ Ready
    /\ Outcome(Settle(QRegisterStackPop(Start(FALSE), q), "]", <<>>, q, ""))

\* nUq
SetQRegInteger(q, v) ==
    /\ Ready
    /\ Outcome(Settle(StateSetQRegIntegerDone(Start(FALSE), q, v),
                      "U", <<>>, q, ""))

\* nJ
Jump(v) ==
    /\ Ready
    /\ Outcome(Settle(StateStartJump(Start(FALSE), v), "J", <<>>, "", ""))

\* Mq, the register holding one of the macro bodies
Macro(body) ==
    /\ Ready
    /\ \E reuse \in BOOLEAN :
          Outcome(Settle(ExecuteMacroLocals(Start(reuse), body),
                         "M", body, "", ""))

\* the world at the start of a command with numeric arguments
StartWith(args, colon) == [World EXCEPT !.args = args, !.colon = colon]

\* a command can be given: in batch mode an error has ended the program
EditReady ==
    Ready /\ keys < MaxEdits /\ (undo_enabled \/ doc_event.kind # "error")

\* D and K with zero, one or two arguments, with or without a colon
Delete(chr, args, colon) ==
    /\ EditReady
    /\ Outcome(Settle(StateStartDelete(StartWith(args, colon), chr),
                      chr, <<>>, "", ""))

\* V and Y with or without an argument, with or without a colon
DeleteWordsCommand(chr, args, colon) ==
    /\ EditReady
    /\ Outcome(Settle(StateStartDeleteWords(StartWith(args, colon), chr),
                      chr, <<>>, "", ""))

\* I<str>$
Insert(str) ==
    /\ EditReady
    /\ Outcome(Settle(StateInsertProcess(Start(FALSE), str),
                      "I", <<>>, "", str))

\* n\, the backslash command with an argument
Backslash(v) ==
    /\ EditReady
    /\ Outcome(Settle(InsertInteger(StartWith(<<v>>, FALSE), v),
                      "\\", <<>>, "", ""))

\* Gq
GetQRegString(q) ==
    /\ EditReady
    /\ \E reuse \in BOOLEAN :
          Outcome(Settle(StateGetQRegStringDone(Start(reuse), q),
                         "G", <<>>, q, ""))

\* Xq with zero, one or two arguments, with or without a colon
CopyToQReg(q, args, colon) ==
    /\ EditReady
    /\ Outcome(Settle(StateCopyToQRegDone(StartWith(args, colon), q),
                      "X", <<>>, q, ""))

\* the user rubs out the last command: its tokens are run, last first
DocRubout ==
    /\ Ready
    /\ undo_tokens # <<>>
    /\ LET g == Last(undo_tokens)
           w == RunDocTokens([World EXCEPT !.undo_tokens = Front(@)], g.toks)
       IN  Outcome([w EXCEPT !.doc_event =
                       DocEvent("rubout", g.cmd, <<>>, "", "", g.before)])

\* the state after start-up: one unnamed buffer is edited
DocStartIn(fs, text, enabled) ==
    /\ undo_enabled = enabled
    /\ files = fs
    /\ buffers = <<[filename |-> <<>>, dirty |-> FALSE, savepoint_id |-> 0,
                    doc |-> 1, dot |-> 0, live |-> TRUE]>>
    /\ ring = <<1>>
    /\ ring_current = 1
    /\ documents = <<[text |-> text, hist |-> <<>>, live |-> TRUE]>>
    /\ view = 1
    /\ qregs = [q \in GlobalNames |-> [string |-> 0, must_undo |-> TRUE,
                                       integer |-> 0, dot |-> 0]]
    /\ qreg_current = ""
    /\ qreg_stack = <<>>
    /\ undo_tokens = <<>>
    /\ keys = 0
    /\ doc_event = DocEvent("init", "", <<>>, "", "", <<>>)
    /\ crashed = FALSE

\* the same in interactive mode
DocStartWith(fs, text) == DocStartIn(fs, text, TRUE)

DocStart(fs) == DocStartWith(fs, "")

\* the files that may exist when the editor starts
FileSystems ==
    { [k \in S |-> "a0"] : S \in SUBSET {<<"/", "a">>} }

ParserStartIn(search, start_mode) ==
    /\ cmdline = <<>>
    /\ phase = "idle"
    /\ frames = <<>>
    /\ macro_pc = 0
    /\ states_current = "start"
    /\ mode = start_mode
    /\ nest_level = 0
    /\ skip_else = FALSE
    /\ mod_colon = FALSE
    /\ mod_at = FALSE
    /\ expr_stack = <<>>
    /\ num_sign = 1
    /\ brace_level = 0
    /\ loop_stack = <<>>
    /\ loop_stack_fp = 0
    /\ undo_group = <<>>
    /\ journal = <<>>
    /\ qreg_search = search
    /\ event = Event("init", "", 0, 0, 0, <<>>)
    /\ snaps = <<>>
    /\ skip = NoSkip
    /\ goto_table = 0
    /\ qreg_locals = 0
    /\ sigint_occurred = FALSE
    /\ dot = 0
    /\ escape_char = CTL_KEY_ESC
    /\ nesting = 1
    /\ strings = <<>>
    /\ string_args = <<>>
    /\ string_typed = <<>>
    /\ string_cmd = [n |-> 0, at |-> FALSE]
    /\ machine = MachineReset

ParserStartWith(search) == ParserStartIn(search, "NORMAL")

ParserStart == ParserStartWith(0)

DocInit ==
    /\ \E fs \in FileSystems : DocStart(fs)
    /\ ParserStart
    /\ qreg_macro = [q \in Digits |-> <<>>]

\* files and buffers
RingNext ==
    \/ \E name \in FileNames : EditFile(name)
    \/ \E name \in SaveNames : SaveFile(name)
    \/ CloseBuffer
    \/ EditQReg("A")
    \/ DocRubout

\* Q-Registers and their stack
QRegNext ==
    \/ \E q \in GlobalNames : EditQReg(q)
    \/ \E q \in GlobalNames, str \in Strings : SetQRegString(q, str)
    \/ PushQReg("A")
    \/ PopQReg("A")
    \/ \E body \in MacroBodies : Macro(body)
    \/ DocRubout

\* commands that change the text, in interactive and in batch mode
EditTexts == {"ab", "a\nb"}

EditPositions == (0 - 1) .. 3

EditArgs ==
    {<<>>} \cup {<<n>> : n \in EditPositions}
           \cup {<<from, to>> : from \in EditPositions, to \in EditPositions}

EditInit ==
    /\ ParserStart
    /\ qreg_macro = [q \in Digits |-> <<>>]
    /\ \E text \in EditTexts, enabled \in BOOLEAN :
          DocStartIn(<<>>, text, enabled)

EditNext ==
    \/ \E chr \in {"D", "K"}, args \in EditArgs, colon \in BOOLEAN :
          Delete(chr, args, colon)
    \/ \E v \in {1, 2} : EditReady /\ Jump(v)
    \/ undo_enabled /\ EditReady /\ DocRubout

\* copies of text into a Q-Register, in interactive and in batch mode
CopyNext ==
    \/ \E args \in EditArgs, colon \in BOOLEAN : CopyToQReg("A", args, colon)
    \/ \E v \in {1, 2} : EditReady /\ Jump(v)
    \/ undo_enabled /\ EditReady /\ DocRubout

\* deletions of words, in interactive and in batch mode
WordTexts == {"ab", "a b", " a\nb "}

WordCounts == (0 - 2) .. 3

WordsInit ==
    /\ ParserStart
    /\ qreg_macro = [q \in Digits |-> <<>>]
    /\ \E text \in WordTexts, enabled \in BOOLEAN :
          DocStartIn(<<>>, text, enabled)

WordsNext ==
    \/ \E chr \in {"V", "Y"}, colon \in BOOLEAN,
          args \in {<<>>} \cup {<<n>> : n \in WordCounts} :
          DeleteWordsCommand(chr, args, colon)
    \/ \E v \in {1, 2, 3} : EditReady /\ Jump(v)
    \/ undo_enabled /\ EditReady /\ DocRubout

\* the commands that change the text, among loads, saves and the editing
\* of a Q-Register
DirtyInit ==
    /\ ParserStart
    /\ qreg_macro = [q \in Digits |-> <<>>]
    /\ \E fs \in FileSystems, text \in {"", "ab"}, enabled \in BOOLEAN :
          DocStartIn(fs, text, enabled)

DirtyNext ==
    \/ Insert("x")
    \/ Backslash(12)
    \/ GetQRegString("A")
    \/ \E args \in {<<>>, <<0, 1>>, <<2, 1>>}, colon \in BOOLEAN :
          Delete("D", args, colon)
    \/ Delete("K", <<>>, FALSE)
    \/ \E chr \in {"V", "Y"}, args \in {<<>>, <<2>>}, colon \in BOOLEAN :
          DeleteWordsCommand(chr, args, colon)
    \/ EditReady /\ EditQReg("A")
    \/ EditReady /\ SetQRegString("A", "x")
    \/ EditReady /\ EditFile(<<"a">>)
    \/ \E name \in {<<>>, <<"a">>} : EditReady /\ SaveFile(name)
    \/ undo_enabled /\ EditReady /\ DocRubout

vars == <<pvars, dvars, sigint_occurred, dot, svars>>

SpecCopy == EditInit /\ [][CopyNext]_vars

SpecDirty == DirtyInit /\ [][DirtyNext]_vars

SpecWords == WordsInit /\ [][WordsNext]_vars

SpecEdit == EditInit /\ [][EditNext]_vars

SpecRing == DocInit /\ [][RingNext]_vars

QRegInit ==
    /\ DocStart(<<>>)
    /\ ParserStart
    /\ qreg_macro = [q \in Digits |-> <<>>]

SpecQReg == QRegInit /\ [][QRegNext]_vars

\* a register with an integer, a string and a caret, pushed and popped
StackIntegers == {1, 2}

StackStrings == {"ab", "c"}

StackPositions == {0, 1, 2}

StackNext ==
    \/ EditQReg("A")
    \/ EditFile(<<>>)
    \/ \E str \in StackStrings : SetQRegString("A", str)
    \/ \E v \in StackIntegers : SetQRegInteger("A", v)
    \/ \E v \in StackPositions : Jump(v)
    \/ PushQReg("A")
    \/ PopQReg("A")
    \/ DocRubout

SpecStack == QRegInit /\ [][StackNext]_vars

\* buffers of the ring opened, moved in, closed and reopened by rollback
CloseNames == {<<>>, <<"a">>, <<"b">>}

ClosePositions == {0, 1}

CloseNext ==
    \/ \E name \in CloseNames : EditFile(name)
    \/ \E v \in ClosePositions : Jump(v)
    \/ CloseBuffer
    \/ DocRubout

CloseInit ==
    /\ DocStart([k \in {<<"/", "a">>} |-> "a0"])
    /\ ParserStart
    /\ qreg_macro = [q \in Digits |-> <<>>]

SpecClose == CloseInit /\ [][CloseNext]_vars

ParserInit ==
    /\ ParserStart
    /\ \E t \in MacroTexts :
          qreg_macro = [q \in Digits |-> IF q = "1" THEN t ELSE <<>>]
    /\ DocStart(<<>>)

ParserNext ==
    \/ \E c \in KeyChars : KeyPress(c)
    \/ Step
    \/ EndOfMacro
    \/ Interrupt
    \/ Rubout

SpecParser == ParserInit /\ [][ParserNext]_vars

\* conditionals, skipped loops and modifiers
CondKeys == {"0", "1", "<", ">", "\"", "|", "'", ":", "M"}

CondTexts ==
    { <<"0", "<", "1", "<", "2", ">", "F", ">", "1", ">", "2">>,
      <<"0", "<", "\"", ">", "1", ">", "2">>,
      <<"0", "<", "M", ">", "1", "$", "$", ">", "2">>,
      <<"0", "\"", ">", "1", "\"", ">", "2", "|", "1", "'", "|", "2", "'", "1">>,
      <<"0", "\"", ">", "1", "'", "2">>,
      <<"1", "\"", ">", "2", "|", "1", "|", "2", "'", "0">>,
      <<"1", "\"", ">", "2", "|", "1", "\"", ">", "2", "|", "0", "'", "1", "'", "2">>,
      <<"@", "1", "<", ">">>,
      <<"2", "<", "0", "<", "1", ">", ">">>,
      <<"0", "<", "1">>,
      <<"0", "\"", ">", "1">>,
      <<"1", "<", "F", ">", ">", "2">>,
      <<"1", ":", "<", "F", ">", "<", ">", ">", "2">>,
      <<"1", "<", ">", "F", ">">>,
      <<"2", ":", "<", "1", ">", "0">>,
      <<"1", "\"", ">", "F", "'", "2", "|", "1", "'", "0">>,
      <<"1", "\"", ">", "F", "|", "2", "|", "1", "'", "0">>,
      <<"1", "\"", ">", "F", "|", "\"", ">", "|", "'", "2", "'", "1">>,
      <<"1", "F", "'", "$">> }

CondInit ==
    /\ ParserStart
    /\ \E t \in CondTexts :
          qreg_macro = [q \in Digits |-> IF q = "1" THEN t ELSE <<>>]
    /\ DocStart(<<>>)

CondNext ==
    \/ \E c \in CondKeys : KeyPress(c)
    \/ Step
    \/ EndOfMacro
    \/ Interrupt
    \/ Rubout

SpecCond == CondInit /\ [][CondNext]_vars

\* movement commands on a buffer with some text
MoveKeys == {"1", "2", ":", "J", "C", "R", "L", "B", "W", "M"}

MoveTexts == {"", "a", "ab", "a b\nc"}

MoveMacros == { <<"2", ":", "C", "J">>, <<"0", "L", "W", "0", "W">> }

MoveInit ==
    /\ ParserStart
    /\ \E t \in MoveMacros :
          qreg_macro = [q \in Digits |-> IF q = "1" THEN t ELSE <<>>]
    /\ \E text \in MoveTexts : DocStartWith(<<>>, text)

MoveNext ==
    \/ \E c \in MoveKeys : KeyPress(c)
    \/ Step
    \/ EndOfMacro
    \/ Interrupt
    \/ Rubout

SpecMove == MoveInit /\ [][MoveNext]_vars

\* loops left by `;`, after a search that has succeeded (-1) or failed (0)
BreakKeys == {"1", "<", ">", ":", ";", "M"}

BreakTexts ==
    { <<"<", ";", "1", ">", "2">>,
      <<"<", ":", ";", "1", ">", "2">>,
      <<"2", "<", "1", ";", "<", ">", ">", "2">>,
      <<":", "<", "1", ":", ";", "0", ";", "2", ">", "1">>,
      <<"<", "0", ";", "0", "\"", ">", "1", "'", ">", "2">>,
      <<"<", "1", "<", "2", ";", ">", "0", ">", "1">>,
      <<":", "<", ";", "<", ">", ">", "2">> }

SearchResults == {0 - 1, 0}

BreakInit ==
    /\ \E v \in SearchResults : ParserStartWith(v)
    /\ \E t \in BreakTexts :
          qreg_macro = [q \in Digits |-> IF q = "1" THEN t ELSE <<>>]
    /\ DocStart(<<>>)

BreakNext ==
    \/ \E c \in BreakKeys : KeyPress(c)
    \/ Step
    \/ EndOfMacro
    \/ Rubout

SpecBreak == BreakInit /\ [][BreakNext]_vars

\* string arguments of commands with one and with two strings
StringChars == {"a", "/", "{", "}", CTL_KEY_ESC}

StringInit ==
    /\ ParserStart
    /\ qreg_macro = [q \in Digits |-> <<>>]
    /\ DocStart(<<>>)

StringNext ==
    \/ StringAt
    \/ \E n \in {1, 2} : StringCommand(n)
    \/ \E chr \in StringChars : StringInput(chr)

SpecString == StringInit /\ [][StringNext]_vars

\* string arguments met while a loop or a conditional is skipped
SkipChars == {"<", ">", "|", "'", "\"", CTL_KEY_ESC}

SkipModes == {"PARSE_ONLY_LOOP", "PARSE_ONLY_COND"}

SkipInit ==
    /\ \E start_mode \in SkipModes : ParserStartIn(0, start_mode)
    /\ qreg_macro = [q \in Digits |-> <<>>]
    /\ DocStart(<<>>)

SkipNext ==
    \/ StringAt
    \/ \E n \in {1, 2} : StringCommand(n)
    \/ \E chr \in SkipChars : StringInput(chr)

SpecSkip == SkipInit /\ [][SkipNext]_vars

\* string building: case conversion, quoting and the caret
BuildChars == {"v", "V", "^", "^V", "^W", "^Q", "^R", "^E"}

BuildNext ==
    \/ StringCommand(1)
    \/ \E chr \in BuildChars : StringInput(chr)

SpecBuild == StringInit /\ [][BuildNext]_vars
(* ----------------------------------------------------------------------- *)
(* Claims about the interpreter                                            *)
(* ----------------------------------------------------------------------- *)
MacroExited == event.kind \in {"macro_end", "macro_return"}

\* C1: rolling back the journal tokens of the last typed character (by a
\* rubout, or when the character is rejected with an error) restores the
\* interpreter state that held before the character was typed: parser
\* state, mode, nest level, skip_else, the modifiers, the expression stack
\* and the loop stack with its iteration counters.
C1_RuboutRestores ==
    event.kind \in {"rubout", "error"} => Observable(Machine) = event.expect

\* C5: whenever a macro invocation exits (by reaching its end or by $$),
\* the loop stack has exactly as many frames as the frame pointer recorded
\* at its entry; and a macro whose text ends while loops it opened are on
\* the stack does not complete but raises "Unterminated loop".
C5_LoopFramesAtMacroExit ==
    /\ [](MacroExited => Len(loop_stack) = event.fp)
    /\ [][(/\ phase = "run"
           /\ frames # <<>>
           /\ macro_pc >= Len(Text(Machine))
           /\ Len(loop_stack) > loop_stack_fp)
          => (event'.kind = "error" /\ event'.msg = "Unterminated loop")]_pvars

\* a macro returned from inside its own loops while its caller had loops open
C5_Witness ==
    /\ event.kind = "macro_return"
    /\ event.loops > 0
    /\ event.fp > 0
    /\ Len(loop_stack) = event.fp

\* C6: while a macro executes, the loop stack never has fewer frames than
\* the frame pointer saved at its entry, and no step of the macro changes a
\* frame below that pointer (a frame of a calling macro).
C6_CallerLoopFramesKept ==
    /\ []((phase = "run" /\ frames # <<>>) => Len(loop_stack) >= loop_stack_fp)
    /\ [][(phase = "run" /\ frames # <<>> /\ event'.kind # "error")
          => SubSeq(loop_stack', 1, loop_stack_fp) =
             SubSeq(loop_stack, 1, loop_stack_fp)]_pvars

\* a macro tried to end or leave a loop of its caller and was refused
C6_Witness ==
    /\ event.kind = "error"
    /\ event.fp > 0
    /\ event.loops = 0
    /\ event.msg \in {"Loop end without corresponding loop start command",
                      "<;> only allowed in iterations",
                      "Jump to loop end without corresponding loop start command"}

\* C7: whenever a macro invocation completes without error, the brace level
\* equals the brace level at its entry.
C7_BracesBalanced == MacroExited => brace_level = event.brace
\* the character the next step of the executing macro feeds to the parser
NextChar ==
    IF phase = "run" /\ macro_pc < Len(Text(Machine))
    THEN Text(Machine)[macro_pc + 1]
    ELSE ""

\* Cmdline::insert(): the interpreter as the first step after the key finds it
Typed(c) ==
    IF phase = "idle"
    THEN [Machine EXCEPT !.cmdline = Append(@, c), !.phase = "run",
                         !.snaps = Append(@, Observable(Machine))]
    ELSE Machine

\* the command c is the next to be executed: the next character of the
\* running macro, or a key the user may type
AtCommand(c) ==
    /\ states_current = "start"
    /\ mode = "NORMAL"
    /\ phase = "idle" \/ NextChar = c

\* the step is not the raise of Error("Interrupted")
NotInterrupted == event'.msg # "Interrupted"

\* C11: `;` executed when no loop is open, or when all open loops were
\* started by a calling macro (no frame above the frame pointer of the
\* current macro), raises the error "<;> only allowed in iterations"; the
\* raising `;` has changed neither the loop stack nor the expression stack
\* nor the mode.
C11_BreakOutsideLoop ==
    /\ []((AtCommand(";") /\ NoLoopHere(Machine))
          => /\ Input(Typed(";"), ";").err = "<;> only allowed in iterations"
             /\ Input(Typed(";"), ";").loop_stack = loop_stack
             /\ Input(Typed(";"), ";").expr_stack = expr_stack
             /\ Input(Typed(";"), ";").mode = mode
             /\ StepResult(Typed(";")).event.kind = "error")
    /\ [][(NextChar = ";" /\ AtCommand(";") /\ NoLoopHere(Machine)
           /\ NotInterrupted)
          => /\ event'.kind = "error"
             /\ event'.msg = "<;> only allowed in iterations"]_pvars

\* a macro executed `;` while only loops of its caller were open
C11_Witness ==
    /\ event.kind = "error"
    /\ event.msg = "<;> only allowed in iterations"
    /\ event.fp > 0
    /\ event.loops = 0
    /\ expr_stack # <<>>

\* the stack without the number a command pops as its argument
ArgsPopped(s) == IF ExprArgs(s) > 0 THEN Front(s) ELSE s

\* where the movement command c goes from the present state, -1 if the
\* target is off the page
Target(c) ==
    MoveTarget(documents[view].text, dot, c,
               ExprPopNumValue(Machine, IF c = "J" THEN 0 ELSE num_sign))

\* the stack without the numbers above its top-most marker
ArgsDiscarded(s) == SubSeq(s, 1, Len(s) - ExprArgs(s))

\* what State::input() has done when it returns or throws
Effect(r) ==
    [err |-> r.err, ret |-> r.ret, calling |-> r.calling,
     macro_pc |-> r.macro_pc,
     state |-> IF r.err # "" THEN <<>> ELSE Observable(r)]

\* C17: a single `$` is executed deferred.  Followed by a character other
\* than `$`, the arguments above the top-most barrier are discarded and the
\* character is processed as the start state processes it; followed by
\* `$`, Return is raised with the number of arguments on the stack and the
\* stack is as it was; a macro that ends right after a single `$` ends with
\* the arguments discarded.
C17_DeferredEscape ==
    /\ []((states_current = "escape" /\ mode = "NORMAL")
          => /\ \A c \in KeyChars \ {"$"} :
                   (phase = "idle" \/ NextChar = c)
                   => Effect(Input(Typed(c), c)) =
                      Effect(Input([Typed(c) EXCEPT
                                       !.states_current = "start",
                                       !.expr_stack = ArgsDiscarded(@)], c))
             /\ (phase = "idle" \/ NextChar = "$")
                => /\ Input(Typed("$"), "$").ret = ExprArgs(expr_stack)
                   /\ Input(Typed("$"), "$").expr_stack = expr_stack)
    /\ [][(/\ phase = "run"
           /\ frames # <<>>
           /\ macro_pc >= Len(Text(Machine))
           /\ states_current = "escape"
           /\ ~UnterminatedLoop(Machine))
          => /\ event'.kind = "macro_end"
             /\ expr_stack' = ArgsDiscarded(expr_stack)]_pvars

\* a `$` with an argument pending was followed by another command
C17_Witness ==
    /\ phase = "idle"
    /\ Len(cmdline) >= 2
    /\ cmdline[Len(cmdline) - 1] = "$"
    /\ cmdline[Len(cmdline)] # "$"
    /\ Last(snaps).states_current = "escape"
    /\ ExprArgs(Last(snaps).expr_stack) > 0
    /\ event.kind = "char"
    /\ Len(expr_stack) < Len(Last(snaps).expr_stack)

\* the stack below the BRACE markers above the given level: what remains
\* when the braces opened above that level are closed and their values
\* discarded
RECURSIVE BelowBraces(_, _)
BelowBraces(s, level) ==
    IF Cardinality({i \in DOMAIN s : s[i].t = "BRACE"}) <= level
    THEN s
    ELSE BelowBraces(Front(s), level)

\* C18: `$$` executed in a macro invocation, possibly within loops and
\* open braces, returns to the caller without an error, with the brace
\* level saved at the macro's entry, with the loop stack cut down to the
\* frames it had at the macro's entry, and with the expression stack
\* holding, of all that was above the braces the macro opened, exactly the
\* direct arguments of `$$`.
C18_ReturnFromMacro ==
    [][(/\ phase = "run"
        /\ frames # <<>>
        /\ states_current = "escape"
        /\ mode = "NORMAL"
        /\ NextChar = "$"
        /\ NotInterrupted)
       => /\ event'.kind = "macro_return"
          /\ brace_level' = Last(frames).brace
          /\ loop_stack' = SubSeq(loop_stack, 1, loop_stack_fp)
          /\ expr_stack' =
                IF brace_level > Last(frames).brace
                THEN BelowBraces(expr_stack, Last(frames).brace)
                        \o SubSeq(expr_stack,
                                  Len(expr_stack) - ExprArgs(expr_stack) + 1,
                                  Len(expr_stack))
                ELSE expr_stack]_pvars

\* C20: the interrupt flag, set asynchronously by the signal handler, is
\* polled before each character is dispatched.  If it is set when it is
\* polled, Error("Interrupted") is raised from the state the interpreter
\* had at the poll: the character at the program counter has not been fed
\* to the parser.  A character dispatched with the flag clear runs to its
\* end, and a flag set meanwhile stays set until the poll before the next
\* character raises the error.
C20_InterruptPolled ==
    /\ [][(/\ phase = "run"
           /\ macro_pc < Len(Text(Machine))
           /\ sigint_occurred
           /\ pvars' # pvars)
          => /\ event'.kind = "error"
             /\ event'.msg = "Interrupted"
             /\ event'.fp = loop_stack_fp
             /\ event'.loops = Len(loop_stack) - loop_stack_fp
             /\ Observable(Machine)' =
                   Observable(ErrorOutcome(Machine, "Interrupted"))
             /\ cmdline' = ErrorOutcome(Machine, "Interrupted").cmdline]_vars
    /\ [][(~sigint_occurred /\ pvars' # pvars)
          => event'.msg # "Interrupted"]_vars
    /\ [][(sigint_occurred /\ phase = "run" /\ phase' = "run")
          => sigint_occurred']_vars

\* a macro was interrupted within a loop it had opened
C20_Witness ==
    /\ event.kind = "error"
    /\ event.msg = "Interrupted"
    /\ event.fp > 0
    /\ event.loops > 0
    /\ sigint_occurred

\* the character a step feeds to State::input()
Fed == IF phase = "idle" THEN Last(cmdline') ELSE NextChar

\* index of the `>` that ends the loop whose body starts at index i of the
\* text, 0 if there is none: commands are counted, so the second character
\* of F<c>, M<q> and "<c> and a `$$` are no loop commands
RECURSIVE LoopEnd(_, _, _)
LoopEnd(text, i, d) ==
    IF i > Len(text) THEN 0
    ELSE IF text[i] \in {"F", "M", "\""} THEN LoopEnd(text, i + 2, d)
    ELSE IF text[i] = "$" /\ i < Len(text) /\ text[i + 1] = "$"
    THEN LoopEnd(text, i + 2, d)
    ELSE IF text[i] = "<" THEN LoopEnd(text, i + 1, d + 1)
    ELSE IF text[i] = ">"
    THEN IF d = 0 THEN i ELSE LoopEnd(text, i + 1, d - 1)
    ELSE LoopEnd(text, i + 1, d)

\* index of the `'` (or, with else_too, of the `|` or `'`) at nesting depth
\* zero that ends the part of a conditional starting at index i, 0 if none
RECURSIVE CondEnd(_, _, _, _)
CondEnd(text, i, d, else_too) ==
    IF i > Len(text) THEN 0
    ELSE IF text[i] \in {"F", "M"} THEN CondEnd(text, i + 2, d, else_too)
    ELSE IF text[i] = "$" /\ i < Len(text) /\ text[i + 1] = "$"
    THEN CondEnd(text, i + 2, d, else_too)
    ELSE IF text[i] = "\"" THEN CondEnd(text, i + 2, d + 1, else_too)
    ELSE IF text[i] = "'"
    THEN IF d = 0 THEN i ELSE CondEnd(text, i + 1, d - 1, else_too)
    ELSE IF text[i] = "|" /\ d = 0 /\ else_too THEN i
    ELSE CondEnd(text, i + 1, d, else_too)

\* C12: a loop started with counter 0 skips its body.  The `<` pushes no
\* loop frame and only pops its counter; while the body is skipped the
\* expression stack, the loop stack, the brace level, the registers and
\* the documents stay as they are; and the mode returns to NORMAL at the
\* `>` that matches the `<`, nested pairs being skipped as a whole, and at
\* no other character.
C12_EmptyLoopSkipped ==
    /\ []((mode # "NORMAL" /\ skip.kind = "loop")
          => /\ mode = "PARSE_ONLY_LOOP"
             /\ expr_stack = skip.state.expr_stack
             /\ loop_stack = skip.state.loop_stack
             /\ brace_level = skip.state.brace_level
             /\ num_sign = skip.state.num_sign)
    /\ [][(mode = "NORMAL" /\ skip'.kind = "loop" /\ event'.kind = "char")
          => /\ ExprPopNumValue(Machine, -1) = 0
             /\ loop_stack' = loop_stack
             /\ expr_stack' = Front(expr_stack)
             /\ nest_level' = 0]_pvars
    /\ [][(/\ mode = "PARSE_ONLY_LOOP"
           /\ skip.kind = "loop"
           /\ skip.depth = Len(frames)
           /\ event'.kind = "char")
          => /\ (mode' = "NORMAL") =
                   (macro_pc' = LoopEnd(Text(Machine)', skip.at + 1, 0))
             /\ mode' \in {"NORMAL", "PARSE_ONLY_LOOP"}
             /\ mode' = "NORMAL"
                => /\ nest_level' = 0
                   /\ expr_stack' = skip.state.expr_stack
                   /\ loop_stack' = skip.state.loop_stack
                   /\ brace_level' = skip.state.brace_level
             /\ documents' = documents
             /\ qregs' = qregs
             /\ qreg_macro' = qreg_macro]_pvars

\* a macro starting with `0<` has skipped a body with a nested loop in it
\* and is back in NORMAL mode at the matching `>`, with nothing pushed
C12_Witness ==
    /\ frames # <<>>
    /\ mode = "NORMAL"
    /\ event.kind = "char"
    /\ SubSeq(Text(Machine), 1, 2) = <<"0", "<">>
    /\ macro_pc = LoopEnd(Text(Machine), 3, 0)
    /\ \E i \in 3..macro_pc : Text(Machine)[i] = "<"
    /\ expr_stack = <<>>
    /\ loop_stack = <<>>

\* C13: a conditional executed in NORMAL mode.  With the test `G` (or `>`)
\* the then-part is executed if the value is greater than 0, and skipped
\* otherwise; a skipped then-part ends at the `|` or `'` at nesting depth
\* zero, nested conditionals being skipped as a whole, and execution goes
\* on in NORMAL mode after it; a `|` reached by the then-part skips the
\* else-part up to the `'` at nesting depth zero.  Nothing skipped changes
\* the expression stack or the loop stack.
C13_Conditional ==
    /\ [][(/\ states_current = "condcommand"
           /\ mode = "NORMAL"
           /\ event'.kind = "char"
           /\ Fed \in {"G", ">"})
          => mode' = IF ExprPopNumValue(Machine, 0) > 0 THEN "NORMAL"
                     ELSE "PARSE_ONLY_COND"]_pvars
    /\ [][(/\ states_current = "start"
           /\ mode = "NORMAL"
           /\ event'.kind = "char"
           /\ Fed = "|")
          => mode' = "PARSE_ONLY_COND" /\ skip'.kind = "else"]_pvars
    /\ []((mode # "NORMAL" /\ skip.kind \in {"cond", "else"})
          => /\ mode = "PARSE_ONLY_COND"
             /\ expr_stack = skip.state.expr_stack
             /\ loop_stack = skip.state.loop_stack)
    /\ [][(/\ mode = "PARSE_ONLY_COND"
           /\ skip.kind \in {"cond", "else"}
           /\ skip.depth = Len(frames)
           /\ event'.kind = "char")
          => (mode' = "NORMAL") =
                (macro_pc' = CondEnd(Text(Machine)', skip.at + 1, 0,
                                     skip.kind = "cond"))]_pvars

\* C19: the colon and at flags are single-shot: the command executed next
\* after a flag was set leaves both flags cleared.  Digits, braces and the
\* comma are taken as parts of that command's arguments, and a command of
\* two characters is executed with its second.
C19_ModifiersSingleShot ==
    [][(/\ mode = "NORMAL"
        /\ mod_colon \/ mod_at
        /\ event'.kind \in {"char", "call"}
        /\ states_current' = "start"
        /\ ~(/\ states_current \in {"start", "escape"}
             /\ Fed \in {":", "@", "(", ")", ","} \cup Digits))
       => ~mod_colon' /\ ~mod_at']_pvars

\* C14: nJ succeeds for every n from 0 to the length of the buffer, the
\* length itself included, and sets dot to n; for every other n (length+1
\* is the first) J without a colon fails with a move error and dot is as
\* it was.
C14_Jump ==
    /\ [](AtCommand("J")
          => IF ExprPopNumValue(Machine, 0) \in 0..Len(documents[view].text)
             THEN /\ Input(Typed("J"), "J").err = ""
                  /\ Input(Typed("J"), "J").dot = ExprPopNumValue(Machine, 0)
             ELSE ~mod_colon
                  => /\ Input(Typed("J"), "J").err =
                           "Attempt to move pointer off page with <J>"
                     /\ Input(Typed("J"), "J").dot = dot
                     /\ StepResult(Typed("J")).event.kind = "error")
    /\ [][(AtCommand("J") /\ event'.kind = "char" /\ Fed = "J")
          => /\ ExprPopNumValue(Machine, 0) \in 0..Len(documents[view].text)
                \/ mod_colon
             /\ ~mod_colon => dot' = ExprPopNumValue(Machine, 0)]_pvars

\* J has set dot to the length of a buffer that is not empty
C14_Witness ==
    /\ phase = "idle"
    /\ event.kind = "char"
    /\ cmdline # <<>>
    /\ Last(cmdline) = "J"
    /\ Last(snaps).states_current = "start"
    /\ dot = Len(documents[view].text)
    /\ dot > 0

\* C15: a movement command with the colon flag set raises no error.  If
\* its target is off the page it pushes the FAILURE boolean, which is not
\* negative, and leaves dot as it was; otherwise it pushes SUCCESS, which
\* is negative, and dot is the target.  Without the colon the command
\* raises a move error when the target is off the page.
C15_ColonMovement ==
    \A c \in MoveCommands :
         (AtCommand(c)
          => IF mod_colon
             THEN /\ Input(Typed(c), c).err = ""
                  /\ ~Input(Typed(c), c).mod_colon
                  /\ Front(Input(Typed(c), c).expr_stack)
                        = ArgsPopped(expr_stack)
                  /\ Last(Input(Typed(c), c).expr_stack).t = "NUM"
                  /\ IF Target(c) < 0
                     THEN /\ Last(Input(Typed(c), c).expr_stack).v >= 0
                          /\ Input(Typed(c), c).dot = dot
                     ELSE /\ Last(Input(Typed(c), c).expr_stack).v < 0
                          /\ Input(Typed(c), c).dot = Target(c)
             ELSE IF Target(c) < 0
             THEN /\ Input(Typed(c), c).err =
                        "Attempt to move pointer off page with <" \o c \o ">"
                  /\ StepResult(Typed(c)).event.kind = "error"
             ELSE /\ Input(Typed(c), c).err = ""
                  /\ Input(Typed(c), c).dot = Target(c))

\* a colon-modified command whose target is off the page has pushed FAILURE
C15_Witness ==
    /\ phase = "idle"
    /\ event.kind = "char"
    /\ Len(cmdline) >= 2
    /\ cmdline[Len(cmdline) - 1] = ":"
    /\ Last(cmdline) \in MoveCommands
    /\ Last(snaps).mod_colon
    /\ expr_stack # <<>>
    /\ Last(expr_stack) = Num(Failure)
    /\ dot > 0

(* ----------------------------------------------------------------------- *)
(* Claims about the document model                                         *)
(* ----------------------------------------------------------------------- *)
\* C2: after the current buffer is saved with EW and the tokens of the
\* save are rolled back, the file system is as before the save (files that
\* existed have their old content, files the save created are gone, no
\* savepoint file is left) and the buffer has its old filename and dirty
\* flag.
C2_SaveRollback ==
    (doc_event.kind = "rubout" /\ doc_event.cmd = "EW" /\ ~crashed)
    => /\ files = doc_event.before.files
       /\ buffers[ring_current].filename =
             doc_event.before.buffers[ring_current].filename
       /\ buffers[ring_current].dirty =
             doc_event.before.buffers[ring_current].dirty

\* set_string(r, v) has just been executed by ^Ur<v>$
StringSet == doc_event.kind = "done" /\ doc_event.cmd = "^U"

\* C3: for any register r, edited or not, and any string v, after
\* set_string(r, v) the result of get_string(r) is v.
C3_SetGetAnyRegister ==
    StringSet => GetString(World, doc_event.q).str = doc_event.str

\* EB<name>$ has just opened the existing regular file <name> into a new
\* buffer
FileLoaded ==
    /\ doc_event.kind = "done"
    /\ doc_event.cmd = "EB"
    /\ FileExists(doc_event.before.files, doc_event.name)
    /\ \A i \in DOMAIN doc_event.before.ring :
          doc_event.before.buffers[doc_event.before.ring[i]].filename
             # Resolve(doc_event.name)

\* C4: when an existing regular file f is opened into a new buffer b by
\* EB, the content of b is the content of f, b is not dirty, b is the
\* current buffer of the ring and the filename of b is the canonical form
\* of f.
C4_LoadedBuffer ==
    FileLoaded
    => /\ ring_current # 0
       /\ ring = Append(doc_event.before.ring, ring_current)
       /\ ring_current \notin
             {doc_event.before.ring[i] : i \in DOMAIN doc_event.before.ring}
       /\ buffers[ring_current].live
       /\ documents[buffers[ring_current].doc].live
       /\ documents[buffers[ring_current].doc].text
             = files[Resolve(doc_event.name)]
       /\ view = buffers[ring_current].doc
       /\ ~buffers[ring_current].dirty
       /\ buffers[ring_current].filename = Resolve(doc_event.name)

C4_Witness ==
    /\ FileLoaded
    /\ doc_event.name = <<".", "a">>
    /\ buffers[ring_current].filename = <<"/", "a">>
    /\ documents[buffers[ring_current].doc].text = "a0"

\* C8: no two buffers of the ring have the same non-null filename.
C8_UniqueFilenames ==
    \A i, j \in DOMAIN ring :
        (i # j /\ buffers[ring[i]].filename # <<>>)
        => buffers[ring[i]].filename # buffers[ring[j]].filename

\* C9: exactly one of ring.current and QRegisters::current is non-null,
\* and it designates the document installed in the widget.
C9_OneEditedEntity ==
    ~crashed
    => /\ (ring_current = 0) # (qreg_current = "")
       /\ ring_current # 0 => view = buffers[ring_current].doc
       /\ ring_current = 0 => view = qregs[qreg_current].string

\* C10: every string document has one owner: no two registers, no two
\* entries of the Q-Register stack and no register together with an entry
\* hold the same document, and no register holds the document of a buffer
\* of the ring.
C10_DocumentOwners ==
    LET regs == {q \in DOMAIN qregs : qregs[q].string # 0}
        ents == {i \in DOMAIN qreg_stack : qreg_stack[i].string # 0}
    IN  ~crashed
        => /\ \A q, r \in regs :
                 q # r => qregs[q].string # qregs[r].string
           /\ \A i, j \in ents :
                 i # j => qreg_stack[i].string # qreg_stack[j].string
           /\ \A q \in regs, i \in ents :
                 qregs[q].string # qreg_stack[i].string
           /\ \A q \in regs, i \in DOMAIN ring :
                 qregs[q].string # buffers[ring[i]].doc

\* the string get_string() returns for a register or an entry of the stack
TextOf(docs, string) == IF string = 0 THEN "" ELSE docs[string].text

\* the dot of a register: the caret of the widget while the register is
\* the edited entity (current_save_dot() stores the caret in its dot field
\* before the field is next read), the dot field otherwise
DotOf(q) ==
    IF ring_current = 0 /\ qreg_current = q THEN dot ELSE qregs[q].dot

\* integer, string and dot of the entries of the Q-Register stack
StackValues(stack, docs) ==
    [i \in DOMAIN stack |->
        [integer |-> stack[i].integer, dot |-> stack[i].dot,
         text |-> TextOf(docs, stack[i].string)]]

\* the command cmd has been executed on register A by this step
DoneOnA(cmd) ==
    /\ keys' = keys + 1
    /\ doc_event'.kind = "done"
    /\ doc_event'.cmd = cmd
    /\ doc_event'.q = "A"

\* [A puts integer, string and dot of A on top of the stack
PushSaves ==
    DoneOnA("[")
    => /\ Len(qreg_stack') = Len(qreg_stack) + 1
       /\ StackValues(Tail(qreg_stack'), documents')
             = StackValues(qreg_stack, documents)
       /\ StackValues(qreg_stack', documents')[1]
             = [integer |-> qregs["A"].integer, dot |-> DotOf("A"),
                text |-> TextOf(documents, qregs["A"].string)]

\* changes to the integer, the string and the caret leave the entries of
\* the stack as they are
StackKept ==
    (DoneOnA("U") \/ DoneOnA("^U") \/ doc_event'.cmd \in {"J", "EQ", "EB"})
    => StackValues(qreg_stack', documents')
          = StackValues(qreg_stack, documents)

\* ]A takes the top entry off the stack and gives its integer and string
\* to A
PopRestores ==
    DoneOnA("]")
    => /\ qreg_stack' = Tail(qreg_stack)
       /\ qregs'["A"].integer = qreg_stack[1].integer
       /\ TextOf(documents', qregs'["A"].string)
             = TextOf(documents, qreg_stack[1].string)

\* ]A gives the dot of the top entry to A
PopRestoresDot == DoneOnA("]") => DotOf("A")' = qreg_stack[1].dot

\* C16: for any register A, after [A, any later changes to the integer and
\* the string of A, and then ]A, the integer, the string and the dot of A
\* equal their values at the time of the push, and the stack has the depth
\* it had before the push: the push stores the three values on top of the
\* stack, later commands keep the entry, and the pop gives the three
\* values of the top entry back to A and removes the entry.
C16_PushPopRestores ==
    [][PushSaves /\ StackKept /\ PopRestores /\ PopRestoresDot]_vars

\* what holds of the pair: everything but the dot of an edited register
C16_AllButEditedDot ==
    [][/\ PushSaves
       /\ StackKept
       /\ PopRestores
       /\ (ring_current # 0 \/ qreg_current # "A") => PopRestoresDot
       /\ DoneOnA("]") => qregs'["A"].dot = qreg_stack[1].dot]_vars

\* A is popped while it is edited with the caret elsewhere than the entry
\* has it
C16_Witness ==
    /\ doc_event.kind = "done"
    /\ doc_event.cmd = "]"
    /\ ring_current = 0
    /\ qreg_current = "A"
    /\ qregs["A"].dot # dot

\* the command cmd has been executed by this step
DoneStep(cmd) ==
    /\ keys' = keys + 1
    /\ ~crashed'
    /\ doc_event'.kind = "done"
    /\ doc_event'.cmd = cmd

\* the command cmd has been rubbed out by this step
RuboutStep(cmd) ==
    /\ keys' = keys + 1
    /\ ~crashed'
    /\ doc_event'.kind = "rubout"
    /\ doc_event'.cmd = cmd

\* EF takes the current buffer out of the ring and edits its neighbour
CloseRemoves ==
    DoneStep("EF")
    => /\ \A i \in DOMAIN ring' : ring'[i] # ring_current
       /\ Len(ring) > 1
          => /\ ring' = RemoveAt(ring, RingIndex(ring, ring_current))
             /\ ring_current' =
                   IF RingIndex(ring, ring_current) < Len(ring)
                   THEN ring[RingIndex(ring, ring_current) + 1]
                   ELSE ring[RingIndex(ring, ring_current) - 1]
       /\ qreg_current' = ""
       /\ view' = buffers'[ring_current'].doc

\* the rollback of EF puts the buffer back where it was and edits it
CloseRolledBack ==
    RuboutStep("EF")
    => /\ ring' = doc_event'.before.ring
       /\ ring_current' = doc_event'.before.ring_current
       /\ view' = buffers'[ring_current'].doc
       /\ dot' = doc_event'.before.dot

\* C21: closing the current buffer with EF removes it from the ring and
\* makes its neighbour current (the next buffer, or the previous one when
\* it was the last); rolling the close back reinserts the buffer at the
\* position it had in the ring, makes it current again and restores its
\* dot.
C21_CloseAndReopen == [][CloseRemoves /\ CloseRolledBack]_vars

\* a close of a buffer that had a neighbour and the caret off the start
\* has been rolled back
C21_Witness ==
    /\ doc_event.kind = "rubout"
    /\ doc_event.cmd = "EF"
    /\ ~crashed
    /\ Len(ring) > 1
    /\ dot > 0

\* EW has just written the current buffer
Saved == doc_event.kind = "done" /\ doc_event.cmd = "EW" /\ ~crashed

\* the name the buffer had before the command
OldFilename ==
    doc_event.before.buffers[doc_event.before.ring_current].filename

\* the file the command wrote
SaveTarget == IF doc_event.name = <<>> THEN OldFilename ELSE doc_event.name

\* the tokens the command pushed
SaveTokens == Last(undo_tokens).toks

\* the reversal token of the save is chosen by the file named path: a
\* savepoint holding the old content of the file if there was one, the
\* removal of the file the save wrote otherwise
TokenChosenBy(path) ==
    IF FileExists(doc_event.before.files, path)
    THEN /\ \A i \in DOMAIN SaveTokens : SaveTokens[i].k # "remove_file"
         /\ \E i \in DOMAIN SaveTokens :
               /\ SaveTokens[i].k = "restore_savepoint"
               /\ Resolve(SaveTokens[i].p) \in DOMAIN files
               /\ files[Resolve(SaveTokens[i].p)]
                     = doc_event.before.files[Resolve(path)]
    ELSE /\ \A i \in DOMAIN SaveTokens :
               SaveTokens[i].k # "restore_savepoint"
         /\ \E i \in DOMAIN SaveTokens :
               /\ SaveTokens[i].k = "remove_file"
               /\ Resolve(SaveTokens[i].p) = Resolve(SaveTarget)

\* C22: Ring::save(filename) with the journal enabled chooses its reversal
\* token by the target path: if the target file exists, that file is
\* renamed to a savepoint and a restore-savepoint token is pushed; if it
\* did not exist, a token that unlinks the newly written target is pushed,
\* also when the target name differs from the filename of the buffer.
C22_TokenByTarget == Saved => TokenChosenBy(SaveTarget)

\* what the code does: the token is chosen by the old name of the buffer
C22_TokenByOldName == Saved => TokenChosenBy(OldFilename)

\* Execute::macro() returns normally by this step
MacroReturns ==
    /\ Len(frames') = Len(frames) - 1
    /\ event'.kind \in {"macro_end", "macro_return"}

\* C23: a macro invocation cannot leave its caller in a skip mode:
\* whenever Execute::macro returns normally to a caller that was in NORMAL
\* mode with nest level 0, the mode is NORMAL and the nest level is 0
\* again, even if the text of the macro ended inside a skipped loop body
\* or a skipped conditional.
C23_MacroLeavesNormal ==
    [][MacroReturns => (mode' = "NORMAL" /\ nest_level' = 0)]_pvars

\* the innermost loop of the current macro has iterations remaining, and
\* the next command is executed
LoopGoesOn ==
    /\ states_current \in {"start", "fcommand"}
    /\ mode = "NORMAL"
    /\ ~NoLoopHere(Machine)
    /\ Last(loop_stack).counter # 1

\* what a loop end does to the interpreter
LoopEndEffect(r) ==
    [err |-> r.err, expr_stack |-> r.expr_stack, loop_stack |-> r.loop_stack,
     brace_level |-> r.brace_level, macro_pc |-> r.macro_pc, mode |-> r.mode,
     mod_colon |-> r.mod_colon]

\* the loop stack after the tokens that the command pushed are run
LoopStackUndone(r) ==
    RunTokens(r, SubSeq(r.undo_group, Len(undo_group) + 1,
                        Len(r.undo_group))).loop_stack

\* F> does to the stacks, the program counter and the iteration counter
\* what > does
SameLoopEnd ==
    LoopGoesOn
    => LoopEndEffect(FLoopEnd(Machine)) = LoopEndEffect(StartLoopEnd(Machine))

\* C24: when the innermost loop of the current macro has iterations
\* remaining (counter not equal to 1), F> has exactly the effect of >:
\* the same handling of the expression stack, the same jump to the loop
\* start, the same resulting iteration counter, and the same journal
\* coverage, so that rubbing out either command restores the previous
\* counter.
C24_ContinueAsLoopEnd ==
    /\ SameLoopEnd
    /\ LoopGoesOn
       => /\ LoopStackUndone(StartLoopEnd(Machine)) = loop_stack
          /\ LoopStackUndone(FLoopEnd(Machine)) = loop_stack

\* the part of the claim that holds: the effect
C24_SameEffect == SameLoopEnd

\* the second character of F> is the next to be executed
AtContinue ==
    /\ states_current = "fcommand"
    /\ mode = "NORMAL"
    /\ phase = "idle" \/ NextChar = ">"

\* C25: when the innermost loop is in its last iteration (counter 1), F>
\* removes the loop frame, closing the implicit brace of a loop that is
\* not pass-through, and enters PARSE_ONLY_LOOP; the rest of the loop body
\* is parsed without being executed, and execution resumes in NORMAL mode
\* right after the `>` that matches the loop, nested loops being skipped
\* as a whole.  F> outside any loop of the current macro level raises an
\* error.
C25_ContinueLastIteration ==
    /\ []((AtContinue /\ NoLoopHere(Machine))
          => /\ Input(Typed(">"), ">").err =
                   "Jump to loop end without corresponding loop start command"
             /\ StepResult(Typed(">")).event.kind = "error")
    /\ [][(/\ AtContinue
           /\ Fed = ">"
           /\ event'.kind = "char"
           /\ ~NoLoopHere(Machine)
           /\ Last(loop_stack).counter = 1)
          => /\ loop_stack' = Front(loop_stack)
             /\ mode' = "PARSE_ONLY_LOOP"
             /\ nest_level' = 0
             /\ skip'.kind = "continue"
             /\ brace_level' = IF Last(loop_stack).pass_through
                               THEN brace_level ELSE brace_level - 1]_pvars
    /\ []((mode # "NORMAL" /\ skip.kind = "continue")
          => /\ mode = "PARSE_ONLY_LOOP"
             /\ expr_stack = skip.state.expr_stack
             /\ loop_stack = skip.state.loop_stack
             /\ brace_level = skip.state.brace_level)
    /\ [][(/\ mode = "PARSE_ONLY_LOOP"
           /\ skip.kind = "continue"
           /\ skip.depth = Len(frames)
           /\ event'.kind = "char")
          => /\ (mode' = "NORMAL") =
                   (macro_pc' = LoopEnd(Text(Machine)', skip.at + 1, 0))
             /\ mode' \in {"NORMAL", "PARSE_ONLY_LOOP"}
             /\ mode' = "NORMAL"
                => /\ nest_level' = 0
                   /\ expr_stack' = skip.state.expr_stack
                   /\ loop_stack' = skip.state.loop_stack]_pvars

\* a macro has left the only iteration of a loop with F>, has skipped a
\* nested loop in the rest of the body, and goes on after the loop
C25_Witness ==
    /\ frames # <<>>
    /\ mode = "NORMAL"
    /\ event.kind = "char"
    /\ Len(Text(Machine)) > 5
    /\ SubSeq(Text(Machine), 1, 5) = <<"1", ":", "<", "F", ">">>
    /\ macro_pc = LoopEnd(Text(Machine), 6, 0)
    /\ \E i \in 6..macro_pc : Text(Machine)[i] = "<"
    /\ loop_stack = <<>>

\* the command c is executed by this step
Executes(c) ==
    /\ event'.kind = "char"
    /\ AtCommand(c)
    /\ Fed = c

\* `>` is executed by this step on a loop of the current macro level
EndsIteration ==
    /\ Executes(">")
    /\ ~NoLoopHere(Machine)

\* C26: for every n >= 1, `n<body>` with a body free of flow-control
\* commands executes the body exactly n times and then goes on after the
\* `>` with the loop frame removed: the `<` pushes a frame with counter n;
\* what is no flow-control command leaves the frames alone; a `>` that
\* finds a counter above 1 decrements it and goes back to the character
\* after the `<`; the `>` that finds the counter 1 removes the frame and
\* goes on.  A loop with no counter or a negative counter is unbounded:
\* its `>` always goes back, and its counter stays negative.
C26_LoopIterations ==
    /\ [][(Executes("<") /\ ExprPopNumValue(Machine, -1) # 0)
          => /\ loop_stack' =
                   Append(loop_stack,
                          [counter |-> ExprPopNumValue(Machine, -1),
                           pc |-> macro_pc,
                           pass_through |-> mod_colon])
             /\ mode' = "NORMAL"]_pvars
    /\ [][(\E c \in Digits \cup {":", "@", "|", "'"} : Executes(c))
          => /\ loop_stack' = loop_stack
             /\ macro_pc' = macro_pc + 1]_pvars
    /\ [][EndsIteration
          => IF Last(loop_stack).counter = 1
             THEN /\ loop_stack' = Front(loop_stack)
                  /\ macro_pc' = macro_pc + 1
                  /\ mode' = "NORMAL"
             ELSE /\ Len(loop_stack') = Len(loop_stack)
                  /\ Front(loop_stack') = Front(loop_stack)
                  /\ Last(loop_stack').counter =
                        IF Last(loop_stack).counter > 1
                        THEN Last(loop_stack).counter - 1
                        ELSE Last(loop_stack).counter
                  /\ macro_pc' = Last(loop_stack).pc + 1
                  /\ mode' = "NORMAL"]_pvars
    /\ [](\A i \in DOMAIN loop_stack : loop_stack[i].counter # 0)
    /\ [][event'.kind = "char"
          => \A i \in DOMAIN loop_stack \cap DOMAIN loop_stack' :
                loop_stack[i].counter < 0 => loop_stack'[i].counter < 0]_pvars

\* a macro has run the body of `2:<1>` twice and goes on after the loop:
\* each pass has added a digit to the number on the stack
C26_Witness ==
    /\ frames # <<>>
    /\ Text(Machine) = <<"2", ":", "<", "1", ">", "0">>
    /\ macro_pc = 5
    /\ mode = "NORMAL"
    /\ loop_stack = <<>>
    /\ expr_stack = <<Num(11)>>

\* the condition of a `;`: the argument on the stack, or the integer of
\* the search register when there is none
BreakCondition ==
    IF ExprArgs(expr_stack) > 0 THEN Last(expr_stack).v ELSE qreg_search

\* the condition makes `;` leave the loop
Breaks == IF mod_colon THEN BreakCondition < 0 ELSE BreakCondition >= 0

\* `;` is executed by this step inside a loop of the current macro level
BreakStep ==
    /\ Executes(";")
    /\ ~NoLoopHere(Machine)

\* C27: `;` inside a loop of the current macro takes its condition from
\* the stack, or from the integer of the search register `_` when the
\* stack has no argument.  On failure (a non-negative condition, with a
\* colon a negative one) it removes the innermost loop frame, closes the
\* implicit brace of a loop that is not pass-through, and parses without
\* executing up to just after the matching `>`; otherwise the loop frame
\* and the mode are unchanged, and the body goes on.
C27_BreakOnFailure ==
    /\ [][(BreakStep /\ Breaks)
          => /\ loop_stack' = Front(loop_stack)
             /\ mode' = "PARSE_ONLY_LOOP"
             /\ nest_level' = 0
             /\ skip'.kind = "break"
             /\ macro_pc' = macro_pc + 1
             /\ brace_level' = IF Last(loop_stack).pass_through
                               THEN brace_level ELSE brace_level - 1]_pvars
    /\ [][(BreakStep /\ ~Breaks)
          => /\ loop_stack' = loop_stack
             /\ mode' = "NORMAL"
             /\ brace_level' = brace_level
             /\ macro_pc' = macro_pc + 1]_pvars
    /\ []((mode # "NORMAL" /\ skip.kind = "break")
          => /\ mode = "PARSE_ONLY_LOOP"
             /\ expr_stack = skip.state.expr_stack
             /\ loop_stack = skip.state.loop_stack
             /\ brace_level = skip.state.brace_level)
    /\ [][(/\ mode = "PARSE_ONLY_LOOP"
           /\ skip.kind = "break"
           /\ skip.depth = Len(frames)
           /\ event'.kind = "char")
          => /\ (mode' = "NORMAL") =
                   (macro_pc' = LoopEnd(Text(Machine)', skip.at + 1, 0))
             /\ mode' \in {"NORMAL", "PARSE_ONLY_LOOP"}
             /\ mode' = "NORMAL"
                => /\ nest_level' = 0
                   /\ expr_stack' = skip.state.expr_stack
                   /\ loop_stack' = skip.state.loop_stack]_pvars

\* the search had failed, and a macro has left its loop by a `;` without
\* argument, has passed over a nested loop and goes on after the `>`
C27_Witness ==
    /\ frames # <<>>
    /\ qreg_search = 0
    /\ Text(Machine) = <<":", "<", ";", "<", ">", ">", "2">>
    /\ macro_pc = 6
    /\ mode = "NORMAL"
    /\ event.kind = "char"
    /\ loop_stack = <<>>

\* the second character c of an F command is executed by this step
JumpStep(c) ==
    /\ event'.kind = "char"
    /\ states_current = "fcommand"
    /\ mode = "NORMAL"
    /\ Fed = c

\* C28: F' parses without executing up to just after the `'` that ends
\* the enclosing conditional, passing over a `|` at nesting depth zero;
\* F| parses without executing up to just after the `|` at nesting depth
\* zero, or the `'` at nesting depth zero where no such `|` comes before
\* it; nested conditionals are skipped as a whole, no character skipped
\* changes the expression stack or the loop stack, and skip_else is false
\* whenever the mode is NORMAL.
C28_JumpInConditional ==
    /\ [][JumpStep("'")
          => /\ mode' = "PARSE_ONLY_COND"
             /\ skip_else'
             /\ nest_level' = 0
             /\ skip'.kind = "jump"]_pvars
    /\ [][JumpStep("|")
          => /\ mode' = "PARSE_ONLY_COND"
             /\ ~skip_else'
             /\ nest_level' = 0
             /\ skip'.kind = "jump"]_pvars
    /\ [](mode = "NORMAL" => ~skip_else)
    /\ []((mode # "NORMAL" /\ skip.kind = "jump") => mode = "PARSE_ONLY_COND")
    /\ [][(/\ mode # "NORMAL"
           /\ skip.kind = "jump"
           /\ event'.kind = "char")
          => /\ expr_stack' = expr_stack
             /\ loop_stack' = loop_stack]_pvars
    /\ [][(/\ mode = "PARSE_ONLY_COND"
           /\ skip.kind = "jump"
           /\ skip.depth = Len(frames)
           /\ event'.kind = "char")
          => (mode' = "NORMAL") =
                (macro_pc' = CondEnd(Text(Machine)', skip.at + 1, 0,
                                     ~skip_else))]_pvars

\* a macro has left the then-part of a conditional with F', has passed
\* over the `|` and goes on after the `'`
C28_Witness ==
    /\ frames # <<>>
    /\ Text(Machine) = <<"1", "\"", ">", "F", "'", "2", "|", "1", "'", "0">>
    /\ macro_pc = 9
    /\ mode = "NORMAL"
    /\ event.kind = "char"
    /\ expr_stack = <<>>

\* what a parse-only mode has to leave alone: the expression stack, the
\* loop stack, the registers, the documents, dot and the ring
Untouched ==
    UNCHANGED <<expr_stack, num_sign, brace_level, loop_stack, qreg_macro,
                qreg_search, files, buffers, ring, ring_current, documents,
                view, qregs, qreg_current, qreg_stack, dot>>

\* C29: while the mode is PARSE_ONLY_LOOP or PARSE_ONLY_COND, processing a
\* character or reaching the end of a macro leaves the expression stack,
\* the loop stack, the registers, the documents, dot, the dirty flags and
\* the ring unchanged.
C29_ParseOnlyFrame ==
    [][(mode # "NORMAL" /\ event'.kind \in {"char", "macro_end"})
       => Untouched]_vars

\* the frame of C29 for the characters alone
C29_CharactersOnly ==
    [][(mode # "NORMAL" /\ event'.kind = "char") => Untouched]_vars

\* the braces of t that are still open
RECURSIVE BraceDepth(_)
BraceDepth(t) ==
    IF t = <<>> THEN 0
    ELSE BraceDepth(Front(t)) + CASE Last(t) = "{" -> 1
                                  [] Last(t) = "}" -> 0 - 1
                                  [] OTHER -> 0

\* t, the characters typed after the command, ends with the character
\* that ends the command's first string argument
FirstStringEnds(t) ==
    IF ~string_cmd.at THEN Last(t) = CTL_KEY_ESC
    ELSE IF Len(t) = 1 THEN FALSE
    ELSE IF t[1] = "{" THEN BraceDepth(t) = 0
    ELSE Last(t) = t[1]

\* the first string argument that ends with the last character of t
FirstString(t) ==
    IF string_cmd.at THEN SubSeq(t, 2, Len(t) - 1) ELSE Front(t)

\* the characters of t typed after the end of the first argument
AfterFirst(t) ==
    SubSeq(t, Len(string_args[1]) + (IF string_cmd.at THEN 3 ELSE 2), Len(t))

\* a character is fed to the state of the command's first string argument
FirstStringStep ==
    /\ states_current \in StringStates
    /\ string_args = <<>>
    /\ string_typed' # string_typed

\* a character is fed to the state of the second string argument, whose
\* delimiter is the escape character or the one given after the command
SecondStringStep ==
    /\ states_current = "string_last"
    /\ Len(string_args) = 1
    /\ string_typed' # string_typed
    /\ string_cmd.at => string_typed[1] \notin {"{", CTL_KEY_ESC}

\* the step ends the first string argument exactly where it ends, and
\* hands over the characters that belong to it
FirstStringRight ==
    /\ (string_args' # <<>>) = FirstStringEnds(string_typed')
    /\ string_args' # <<>>
       => string_args'[1] = FirstString(string_typed')

\* C30: without the @ modifier a string argument ends at the first ESC.
\* With the @ modifier the first character after the command is the
\* delimiter, and the characters up to its next occurrence are the string;
\* when that character is `{`, the string ends at the `}` that brings the
\* nesting of braces back to zero.  This holds for the only string
\* argument of a command as for the first of two, and the second of two
\* ends at the next ESC or delimiter.
C30_StringTermination ==
    /\ [][FirstStringStep => FirstStringRight]_vars
    /\ [][SecondStringStep
          => /\ (Len(string_args') = 2) =
                   (Last(string_typed') = IF string_cmd.at THEN string_typed[1]
                                          ELSE CTL_KEY_ESC)
             /\ Len(string_args') = 2
                => string_args'[2] = Front(AfterFirst(string_typed'))]_vars

\* the statement of C30 for the last string argument of a command, and
\* for a non-last one whose delimiter is neither `{` nor ESC
C30_LastOrPlainDelimiter ==
    /\ [][(/\ FirstStringStep
           /\ ~(/\ string_cmd.n = 2
                /\ string_cmd.at
                /\ string_typed'[1] \in {"{", CTL_KEY_ESC}))
          => FirstStringRight]_vars
    /\ [][SecondStringStep
          => /\ (Len(string_args') = 2) =
                   (Last(string_typed') = IF string_cmd.at THEN string_typed[1]
                                          ELSE CTL_KEY_ESC)
             /\ Len(string_args') = 2
                => string_args'[2] = Front(AfterFirst(string_typed'))]_vars

\* a character is fed to a string state
StringStep == string_typed' # string_typed

\* what decides where the string ends, after chr is fed in mode in_mode
StringEnd(in_mode, chr) ==
    [f \in {"at", "escape_char", "nesting", "done"} |->
        ExpectStringCustom([StringMachine EXCEPT !.mode = in_mode], chr)[f]]

\* C31: in PARSE_ONLY_LOOP and PARSE_ONLY_COND a string argument is
\* skipped as a unit: the characters fed to a string state, `<`, `>`, `|`,
\* `'` and `"` among them, change neither the mode nor the nest level; and
\* the end of the string is recognised where it is in NORMAL mode, with
\* and without the @ modifier: every character leaves the at flag, the
\* delimiter and the nesting as it leaves them in NORMAL mode, and the
\* first argument of a command ends at the ESC or at the second occurrence
\* of the character given as delimiter.
C31_StringSkipped ==
    /\ [][StringStep
          => /\ mode' = mode
             /\ nest_level' = nest_level
             /\ skip_else' = skip_else]_vars
    /\ [](states_current \in StringStates
          => \A chr \in SkipChars : StringEnd(mode, chr) = StringEnd("NORMAL", chr))
    /\ [][(/\ FirstStringStep
           /\ ~(/\ string_cmd.n = 2
                /\ string_cmd.at
                /\ string_typed'[1] = CTL_KEY_ESC))
          => (string_args' # <<>>) = FirstStringEnds(string_typed')]_vars

\* while a loop is skipped, a command's string argument with the delimiter
\* `>` has been passed: it held a `<`, and the loop is still skipped
C31_Witness ==
    /\ mode = "PARSE_ONLY_LOOP"
    /\ nest_level = 0
    /\ states_current = "start"
    /\ string_cmd = [n |-> 1, at |-> TRUE]
    /\ string_typed = <<">", "<", ">">>
    /\ Len(string_args) = 1

\* the character chr is fed to the string state as it is: no caret is
\* pending and chr is no caret
FeedsPlain(chr) ==
    /\ StringStep
    /\ Last(string_typed') = chr
    /\ ~machine.toctl
    /\ chr # "^"

\* what the step has added to the string
Emitted == SubSeq(strings', Len(strings) + 1, Len(strings'))

C33_Verbatim ==
    [][(StringStep /\ machine.state = "StateEscaped")
       => /\ Emitted = <<Last(string_typed')>>
          /\ machine'.state = "StateStart"]_vars

\* the statement of C33 for a character that is no caret, fed while no
\* case mode is set
C33_NoCaretNoCaseMode ==
    [][(/\ StringStep
        /\ machine.state = "StateEscaped"
        /\ machine.mode = "MODE_NORMAL"
        /\ ~machine.toctl
        /\ Last(string_typed') # "^")
       => /\ Emitted = <<Last(string_typed')>>
          /\ machine'.state = "StateStart"]_vars

(* ----------------------------------------------------------------------- *)
(* C34: what Execute::macro() leaves behind                                *)
(* ----------------------------------------------------------------------- *)
\* the five variables Execute::macro() saves in parent_* locals
ParentValues(pc, state, fp, locals, table) ==
    [pc |-> pc, state |-> state, fp |-> fp, locals |-> locals,
     goto_table |-> table]

\* the saved values of a frame of the model
ParentOf(frame) ==
    ParentValues(frame.pc, frame.state, frame.fp, frame.locals, frame.goto_table)

\* the undo token emitted last
LastToken ==
    IF undo_group # <<>> THEN Last(undo_group) ELSE Last(Last(journal))

\* C34: Execute::macro() leaves the program counter, the parser state, the
\* loop frame pointer, the locals table and the goto table as they were when
\* it was entered.  The frame made on entry holds the five values of that
\* moment and is not changed while the macro runs; at the end of the macro
\* and on a Return the five variables are set from it (after which the
\* caller's step goes on: the state machine enters the start state, leaving
\* the restored state in the undo token, and the program counter advances
\* past the register name); an error thrown in any depth of macro calls
\* leaves the loop frame pointer and the two tables of the outermost call's
\* entry, and the command line, which rejects the typed character, sets the
\* program counter to the place of that character and the state to the one
\* before it.
C34_MacroRestores ==
    /\ [][event'.kind = "call"
          => /\ Front(frames') = frames
             /\ ParentOf(Last(frames')) =
                   ParentValues(macro_pc, states_current, loop_stack_fp,
                         qreg_locals, goto_table)]_pvars
    /\ [][(frames # <<>> /\ event'.kind \in {"char", "call"})
          => SubSeq(frames', 1, Len(frames)) = frames]_pvars
    /\ [][(frames # <<>> /\ event'.kind \in {"macro_end", "macro_return"})
          => /\ frames' = Front(frames)
             /\ ParentValues(macro_pc' - 1, LastToken'.v,
                             loop_stack_fp', qreg_locals', goto_table')
                   = ParentOf(Last(frames))]_pvars
    /\ [][(frames # <<>> /\ event'.kind = "error")
          => /\ frames' = <<>>
             /\ ParentValues(macro_pc', states_current', loop_stack_fp',
                      qreg_locals', goto_table')
                   = [ParentOf(frames[1]) EXCEPT
                         !.pc = Len(cmdline'),
                         !.state = Last(snaps).states_current]]_pvars
    /\ [](frames = <<>> => /\ loop_stack_fp = 0
                           /\ qreg_locals = 0
                           /\ goto_table = 0)

\* a macro has called a second macro with the colon flag, which has
\* ended: the first macro goes on with its own goto table and its own
\* locals
C34_Witness ==
    /\ Len(frames) = 1
    /\ frames[1].text = <<":", "M", "2">>
    /\ frames[1].fp = 0
    /\ frames[1].pc = 2
    /\ event.kind = "macro_end"
    /\ macro_pc = 3
    /\ goto_table = 1
    /\ qreg_locals = 1


(* ----------------------------------------------------------------------- *)
(* C35: from,to D and from,to K                                            *)
(* ----------------------------------------------------------------------- *)
\* the command cmd, given with two arguments, is executed by this step
TwoArgStep(cmds) ==
    /\ keys' = keys + 1
    /\ doc_event'.kind \in {"done", "error"}
    /\ doc_event'.cmd \in cmds
    /\ Len(doc_event'.args) = 2

\* the text without the characters of [from, to)
Without(text, from, to) ==
    SubSeq(text, 1, from) \o SubSeq(text, to + 1, Len(text))

\* 0 <= from <= to <= length
WellFormed(text, from, to) == 0 <= from /\ from <= to /\ to <= Len(text)

\* C35: from,to D and from,to K delete exactly the characters of [from, to)
\* when 0 <= from <= to <= length, and with a colon push SUCCESS.  Any
\* other range fails: without a colon by an error, with a colon by pushing
\* FAILURE, and the text, dot and the buffers with their dirty flags are as
\* before the command.
C35_DeleteRange ==
    [][TwoArgStep({"D", "K"})
       => IF WellFormed(documents[view].text, doc_event'.args[1],
                        doc_event'.args[2])
          THEN /\ doc_event'.kind = "done"
               /\ documents'[view'].text =
                     Without(documents[view].text, doc_event'.args[1],
                             doc_event'.args[2])
               /\ doc_event'.pushed =
                     IF doc_event'.colon THEN <<Success>> ELSE <<>>
          ELSE /\ doc_event'.kind =
                     IF doc_event'.colon THEN "done" ELSE "error"
               /\ doc_event'.pushed =
                     IF doc_event'.colon THEN <<Failure>> ELSE <<>>
               /\ documents'[view'].text = documents[view].text
               /\ dot' = dot
               /\ buffers' = buffers]_vars

\* in batch mode 1,2:D has deleted the second character of the buffer and
\* pushed SUCCESS, after 2,1:D had failed
C35_Witness ==
    /\ ~undo_enabled
    /\ keys = 2
    /\ doc_event.kind = "done"
    /\ doc_event.cmd = "D"
    /\ doc_event.args = <<1, 2>>
    /\ doc_event.pushed = <<Success>>
    /\ documents[view].text = "a"
    /\ buffers[ring_current].dirty


(* ----------------------------------------------------------------------- *)
(* C36: nV and nY                                                          *)
(* ----------------------------------------------------------------------- *)
\* a V or Y command is executed by this step
WordsStep ==
    /\ keys' = keys + 1
    /\ doc_event'.kind \in {"done", "error"}
    /\ doc_event'.cmd \in {"V", "Y"}

\* the command of this step has failed: an error, or FAILURE was pushed
WordsFailed ==
    IF doc_event'.colon THEN doc_event'.pushed = <<Failure>>
    ELSE doc_event'.kind = "error"

\* nothing of the text, the caret and the buffers is changed by this step
WordsKept ==
    /\ documents'[view'].text = documents[view].text
    /\ dot' = dot
    /\ buffers' = buffers

\* the step has deleted text, if it was asked to, and the buffer is dirty
WordsDeleted ==
    /\ doc_event'.kind = "done"
    /\ doc_event'.pushed = IF doc_event'.colon THEN <<Success>> ELSE <<>>
    /\ doc_event'.args # <<0>>
       => /\ Len(documents'[view'].text) < Len(documents[view].text)
          /\ buffers'[ring_current'].dirty

\* C36: nV and nY do all or nothing, in interactive and in batch mode: if
\* the command fails (an error, or FAILURE with a colon) the text and dot
\* are as before the command; if it does not fail, the words are deleted
\* and the buffer is dirty.
C36_AllOrNothing ==
    [][WordsStep => IF WordsFailed THEN WordsKept ELSE WordsDeleted]_vars

\* the same in interactive mode only, where Scintilla collects the undo
\* history
C36_InteractiveAllOrNothing ==
    [][(WordsStep /\ undo_enabled)
       => IF WordsFailed THEN WordsKept ELSE WordsDeleted]_vars


(* ----------------------------------------------------------------------- *)
(* C37: the dirty flag                                                     *)
(* ----------------------------------------------------------------------- *)
\* the commands that change the text of the edited document
MutationCommands == {"I", "\\", "D", "K", "V", "Y", "G"}

\* a command is executed by this step (it is no rubout)
CommandStep == keys' = keys + 1 /\ doc_event'.kind \in {"done", "error"}

\* this step has loaded a file into a new buffer or saved the edited buffer
LoadOrSave ==
    /\ CommandStep
    /\ doc_event'.kind = "done"
    /\ ring_current' # 0
    /\ \/ doc_event'.cmd = "EW" /\ ring_current # 0
       \/ /\ doc_event'.cmd = "EB"
          /\ Len(ring') > Len(ring)

\* this step has changed the text of the edited buffer by a command
Mutation ==
    /\ CommandStep
    /\ doc_event'.cmd \in MutationCommands
    /\ ring_current # 0
    /\ documents'[view'].text # documents[view].text

\* this step rolls a mutation of the edited buffer back
MutationRolledBack ==
    /\ keys' = keys + 1
    /\ doc_event'.kind = "rubout"
    /\ doc_event'.cmd \in MutationCommands
    /\ ring_current # 0

\* this step executes a command while a Q-Register is edited
RegisterEdited == CommandStep /\ qreg_current # "" /\ qreg_current' # ""

\* no buffer that exists before and after this step changes its dirty flag
DirtyKept ==
    \A b \in DOMAIN buffers \cap DOMAIN buffers' :
        (buffers[b].live /\ buffers'[b].live)
            => buffers'[b].dirty = buffers[b].dirty

\* C37: the edited buffer is clean right after a load or a save and dirty
\* after a command has changed its text (I, \, D, K, V, Y, G); the rubout of
\* a mutation gives the flag the value from before the mutation, FALSE if
\* the buffer was clean (the first mutation after a save); no buffer's flag
\* changes while a Q-Register is edited.
C37_DirtyFlag ==
    /\ [][LoadOrSave => ~buffers'[ring_current'].dirty]_vars
    /\ [][Mutation => buffers'[ring_current'].dirty]_vars
    /\ [][MutationRolledBack
          => /\ ring_current' = ring_current
             /\ buffers'[ring_current].dirty =
                   doc_event'.before.buffers[ring_current].dirty]_vars
    /\ [][RegisterEdited => DirtyKept]_vars

\* the same, with the text changes of a failed command of batch mode left
\* out
C37_DirtyFlagButFailedWords ==
    /\ [][LoadOrSave => ~buffers'[ring_current'].dirty]_vars
    /\ [][(Mutation /\ (undo_enabled \/ ~WordsFailed))
          => buffers'[ring_current'].dirty]_vars
    /\ [][MutationRolledBack
          => /\ ring_current' = ring_current
             /\ buffers'[ring_current].dirty =
                   doc_event'.before.buffers[ring_current].dirty]_vars
    /\ [][RegisterEdited => DirtyKept]_vars


(* ----------------------------------------------------------------------- *)
(* C38: EF on the only buffer of the ring                                  *)
(* ----------------------------------------------------------------------- *)
\* EF has just closed the only buffer of the ring
OnlyBufferClosed ==
    /\ ~crashed
    /\ doc_event.kind = "done"
    /\ doc_event.cmd = "EF"
    /\ Len(doc_event.before.ring) = 1

\* the ring holds one buffer, which is new, unnamed, clean and current
Replaced ==
    /\ Len(ring) = 1
    /\ ring_current = ring[1]
    /\ ring[1] \notin {doc_event.before.ring[i] :
                          i \in DOMAIN doc_event.before.ring}
    /\ buffers[ring[1]].live
    /\ buffers[ring[1]].filename = <<>>
    /\ ~buffers[ring[1]].dirty
    /\ view = buffers[ring[1]].doc

\* the world after the rubout of the last command
RolledBack ==
    RunDocTokens([World EXCEPT !.undo_tokens = Front(@)],
                 Last(undo_tokens).toks)

\* the rubout leaves the ring with the buffer that was closed, current again
RingRestored ==
    /\ RolledBack.ring = doc_event.before.ring
    /\ RolledBack.ring_current = doc_event.before.ring_current
    /\ RolledBack.view = buffers[doc_event.before.ring_current].doc

\* the rubout closes and frees the replacement once, and only once
FreedOnce ==
    /\ ~RolledBack.buffers[ring_current].live
    /\ ~RolledBack.ub
    /\ Cardinality({i \in DOMAIN Last(undo_tokens).toks :
                      /\ Last(undo_tokens).toks[i].k = "close"
                      /\ Last(undo_tokens).toks[i].b = ring_current}) = 1

\* C38: when EF closes the only buffer of the ring, a new unnamed buffer is
\* made and is current; the rubout of that EF closes and frees the new
\* buffer exactly once and leaves the ring with the buffer that was closed,
\* which is current again.
C38_CloseOnlyBuffer ==
    OnlyBufferClosed => Replaced /\ RingRestored /\ FreedOnce

\* the same without the count of the closes of the replacement
C38_ReplacedAndRestored == OnlyBufferClosed => Replaced /\ RingRestored

\* the command c is parsed by this step in the parse-only mode md, outside
\* of any nested construct
SkippedAtTop(c, md) ==
    /\ event'.kind = "char"
    /\ states_current = "start"
    /\ mode = md
    /\ nest_level = 0
    /\ Fed = c

\* C39: in every reachable state nest_level >= 0, the mode NORMAL implies
\* nest_level = 0, and skip_else implies the mode PARSE_ONLY_COND; a `>`
\* parsed in PARSE_ONLY_LOOP at nest level 0 and a `'` parsed in
\* PARSE_ONLY_COND at nest level 0 end the skip (the mode becomes NORMAL,
\* skip_else false) and leave nest_level at 0.
C39_SkipInvariants ==
    /\ [](nest_level >= 0)
    /\ [](mode = "NORMAL" => nest_level = 0)
    /\ [](skip_else => mode = "PARSE_ONLY_COND")
    /\ [][SkippedAtTop(">", "PARSE_ONLY_LOOP")
          => /\ mode' = "NORMAL"
             /\ nest_level' = 0]_pvars
    /\ [][SkippedAtTop("'", "PARSE_ONLY_COND")
          => /\ mode' = "NORMAL"
             /\ ~skip_else'
             /\ nest_level' = 0]_pvars

\* a macro whose condition failed has skipped a nested conditional and the
\* else-part's `'` at nest level 0 has ended the skip
C39_Witness ==
    /\ frames # <<>>
    /\ Text(Machine) = <<"1", "\"", ">", "F", "|", "\"", ">", "|", "'",
                         "2", "'", "1">>
    /\ macro_pc = 11
    /\ event.kind = "char"
    /\ mode = "NORMAL"
    /\ nest_level = 0
    /\ ~skip_else

(* ----------------------------------------------------------------------- *)
(* C40: from,to Xq                                                         *)
(* ----------------------------------------------------------------------- *)
\* the string of a global register
StringOf(docs, regs, q) == TextOf(docs, regs[q].string)

\* the step has copied the characters of [from, to) of the edited text
\* into the register, after what the register held if a colon was given
Copied ==
    /\ doc_event'.kind = "done"
    /\ StringOf(documents', qregs', doc_event'.q) =
          (IF doc_event'.colon
           THEN StringOf(documents, qregs, doc_event'.q) ELSE "")
             \o SubSeq(documents[view].text, doc_event'.args[1] + 1,
                       doc_event'.args[2])
    /\ documents'[view'].text = documents[view].text
    /\ view' = view
    /\ dot' = dot

\* the step has raised a range error and the registers are as before
CopyRefused ==
    /\ doc_event'.kind = "error"
    /\ qregs' = qregs
    /\ StringOf(documents', qregs', doc_event'.q) =
          StringOf(documents, qregs, doc_event'.q)

\* C40: from,to Xq copies exactly the characters of [from, to) into the
\* register q (after its text if colon-modified) when
\* 0 <= from <= to <= length; when to < from or a position is outside of
\* [0, length] it raises a range error, copies nothing and leaves the
\* register unchanged.  A step at which the process dies is not judged.
C40_CopyRange ==
    [][(TwoArgStep({"X"}) /\ ~crashed')
       => IF WellFormed(documents[view].text, doc_event'.args[1],
                        doc_event'.args[2])
          THEN Copied
          ELSE CopyRefused]_vars

\* both positions are within the text, but to is before from
Reversed(text, from, to) ==
    /\ ValidatePos(text, from)
    /\ ValidatePos(text, to)
    /\ to < from

\* what holds of C40: the same for every pair of positions but those with
\* to < from that are both within the text
C40_CopyRangeUnlessReversed ==
    [][(/\ TwoArgStep({"X"})
        /\ ~crashed'
        /\ ~Reversed(documents[view].text, doc_event'.args[1],
                     doc_event'.args[2]))
       => IF WellFormed(documents[view].text, doc_event'.args[1],
                        doc_event'.args[2])
          THEN Copied
          ELSE CopyRefused]_vars
====
